---- MODULE Spec2Model ----
(***************************************************************************)
(* Model of the device operator kernels of the extension layer:            *)
(*   csrc/aten/operators/Cat.cpp        _cat_out, cat, parallel_cat,       *)
(*                                      CatArrayBatchedCopy,               *)
(*                                      CatArrIndexToOffset                *)
(*   csrc/gpu/aten/operators/Linear.cpp the linear_<post-op> entry points  *)
(*                                                                         *)
(* Tensors hold element tokens: element tid (row-major, 0-based) of input  *)
(* j is the integer Elem(j, tid), so that every element of every input is  *)
(* distinguishable in the output.  Memory offsets are 0-based as in the    *)
(* code; sequences are 1-based, so offset k is cell k+1.                   *)
(***************************************************************************)
EXTENDS Integers, Sequences, FiniteSets, TLC

\* ---------------------------------------------------------------- bounds
MaxInputs == 2
MaxSize == 2
GridWorkers == 2
MaxRank == 4

\* ------------------------------------------------------ program constants
CAT_ARRAY_BATCH_SIZE == 1024
CAT_ARRAY_MAX_INPUT_DIMS == 3

\* ---------------------------------------------------------------- helpers
RECURSIVE Prod(_)
Prod(s) == IF s = <<>> THEN 1 ELSE Head(s) * Prod(Tail(s))

numel(sizes) == Prod(sizes)

Min2(a, b) == IF a < b THEN a ELSE b

\* strides resize_ gives a tensor of the given sizes in the contiguous memory
\* format (the format suggest_memory_format returns for a tensor of rank <= 3)
ContiguousStrides(sizes) ==
    [k \in 1..Len(sizes) |-> Prod(SubSeq(sizes, k + 1, Len(sizes)))]

\* multi-index (0-based coordinates) of the row-major linear index lin in a
\* tensor of the given sizes
RECURSIVE Unravel(_, _)
Unravel(lin, sizes) ==
    IF sizes = <<>> THEN <<>>
    ELSE LET inner == Prod(Tail(sizes))
         IN  <<lin \div inner>> \o Unravel(lin % inner, Tail(sizes))

\* memory offset of a multi-index under the given strides
RECURSIVE Dot(_, _)
Dot(idx, strides) ==
    IF idx = <<>> THEN 0
    ELSE Head(idx) * Head(strides) + Dot(Tail(idx), Tail(strides))

\* the element tid of input j
Elem(j, tid) == 100 * j + tid

\* ---------------------------------------------------------------- tensors
UndefinedTensor == [defined |-> FALSE, sizes |-> <<0>>]

\* the ranks the model covers are those the batched copy is instantiated for
Shapes == UNION {[1..r -> 1..MaxSize] : r \in 1..MaxRank}

Tensors == {UndefinedTensor} \cup {[defined |-> TRUE, sizes |-> s] : s \in Shapes}

InputLists == UNION {[1..n -> Tensors] : n \in 0..MaxInputs}

Dimensions == (0 - 1)..MaxRank

\* the output tensor the caller passes in
PriorResult == [sizes |-> <<2>>, strides |-> <<1>>, data |-> <<1, 2>>]

MemOverlapStatus == {"NO", "PARTIAL", "FULL", "TOO_HARD"}

VARIABLES
    pc,            \* position of the call
    inputs,        \* TensorList argument
    dimension,     \* concat dimension argument
    allSameType,   \* cat's allSameType argument
    result,        \* the output tensor: sizes, strides, data by memory offset
    err,           \* the error the call failed with, "None" otherwise
    castable,      \* what canCast(result_type(inputs), result type) returned
    overlapping,   \* inputs whose overlap status with the output was PARTIAL or FULL
    loc,           \* cat's locals: hasSkippedInput, nDims, notSkipped, size
    effects,       \* side effects performed so far, in order
    path,          \* "fast" (parallel_cat), "fallback" (narrow + copy_) or "none"
    flags,         \* allContiguous, all32BitIndexable, result 32-bit indexable
    ub,            \* a kernel wrote out of bounds or two writes hit one cell
    linear,        \* the last call of a linear entry point: arguments and return
    linalg,        \* the last call of an entry point of BatchLinearAlgebra.cpp
    pcat,          \* parallel_cat's batch loop and the device queue it submits to
    grid,          \* the work items of one dispatch of CatArrayBatchedCopy
    arith          \* the unsigned index arithmetic of one fast-path call

catvars == << pc, inputs, dimension, allSameType, result, err, castable,
              overlapping, loc, effects, path, flags, ub >>
vars == << catvars, linear, linalg, pcat, grid, arith >>
notcat == << linear, linalg, pcat, grid, arith >>
notlinear == << catvars, linalg, pcat, grid, arith >>
notlinalg == << catvars, linear, pcat, grid, arith >>
notpcat == << catvars, linear, linalg, grid, arith >>
notgrid == << catvars, linear, linalg, pcat, arith >>
notarith == << catvars, linear, linalg, pcat, grid >>

NoLoc == [hasSkippedInput |-> FALSE, nDims |-> 0, notSkipped |-> 0, size |-> <<>>, offset |-> 0, narrows |-> <<>>]
NoFlags == [allContiguous |-> FALSE, all32BitIndexable |-> FALSE, result32 |-> FALSE]

\* a post-op chain applied to no matmul result yet
NoTensor == [plain |-> 0, applied |-> <<>>]

\* no linear entry point has been called
\* args: the entry point's arguments after bias; called: the fused-matmul
\* service was invoked
\* calls: how often the service was handed an attribute; previous: the
\* is_fused_ the wrapper of the call before ended with
LinearIdle == [entry |-> "none", plain |-> 0, args |-> <<>>, attr |-> <<>>, called |-> FALSE, is_fused |-> FALSE, output |-> NoTensor, err |-> "None", calls |-> 0, previous |-> FALSE]

\* no entry point of BatchLinearAlgebra.cpp has been called
LinalgIdle == [entry |-> "none", args |-> <<>>, out |-> <<>>, effects |-> <<>>,
               err |-> "None"]

\* no kernel has been dispatched
GridIdle == [pc |-> "idle", nElements |-> <<>>, range |-> 0, item |-> <<>>, copied |-> <<>>]

\* no fast-path call is being followed
ArithIdle == [pc |-> "idle", ts |-> <<>>, dim |-> 0, nDims |-> 0, os |-> <<>>, descs |-> <<>>, item |-> <<>>]

\* parallel_cat has not been entered
PcatIdle == [pc |-> "idle", ts |-> <<>>, dim |-> 0, nDims |-> 0, out |-> [sizes |-> <<>>, strides |-> <<>>, data |-> <<>>], i |-> 0, batch |-> 0, batchCounter |-> 0, offset |-> 0, stackInputs |-> 0, staging |-> <<>>, d_inputs |-> <<>>, queue |-> <<>>, submitted |-> <<>>, kernels |-> <<>>]

\* no call of cat is in progress
CatIdle ==
    /\ pc = "idle"
    /\ inputs = <<>>
    /\ dimension = 0
    /\ allSameType = FALSE
    /\ result = PriorResult
    /\ err = "None"
    /\ castable = "unqueried"
    /\ overlapping = {}
    /\ loc = NoLoc
    /\ effects = <<>>
    /\ path = "none"
    /\ flags = NoFlags
    /\ ub = FALSE

Init ==
    /\ linear = LinearIdle
    /\ linalg = LinalgIdle
    /\ pcat = PcatIdle
    /\ grid = GridIdle
    /\ arith = ArithIdle
    /\ pc = "_cat_out"
    /\ inputs \in InputLists
    /\ dimension \in Dimensions
    /\ allSameType = FALSE
    /\ result = PriorResult
    /\ err = "None"
    /\ castable = "unqueried"
    /\ overlapping = {}
    /\ loc = NoLoc
    /\ effects = <<>>
    /\ path = "none"
    /\ flags = NoFlags
    /\ ub = FALSE

\* ---------------------------------------------------- validation of cat
\* the skip test of cat: an undefined placeholder (which reports rank 1)
should_skip(t) == ~t.defined /\ Len(t.sizes) = 1

\* the first loop of cat: hasSkippedInput, and nDims / notSkippedTensor as the
\* last non-skipped input leaves them (notSkipped = 0: none was assigned)
ScanInputs(ts) ==
    LET kept == {i \in 1..Len(ts) : ~should_skip(ts[i])}
        last == IF kept = {} THEN 0 ELSE CHOOSE i \in kept : \A k \in kept : k <= i
    IN  [hasSkippedInput |-> \E i \in 1..Len(ts) : should_skip(ts[i]),
         nDims |-> IF last = 0 THEN 0 ELSE Len(ts[last].sizes),
         notSkipped |-> last,
         size |-> <<>>, offset |-> 0, narrows |-> <<>>]

\* faulty variant: only the ranks are compared
check_rank_only(first, second, dim) ==
    IF Len(first.sizes) # Len(second.sizes) THEN "ShapeMismatchError" ELSE "None"

check_shape_except_dim(first, second, dim) ==
    IF Len(first.sizes) # Len(second.sizes) THEN "ShapeMismatchError"
    ELSE IF \E d \in 0..(Len(first.sizes) - 1) :
                d # dim /\ first.sizes[d + 1] # second.sizes[d + 1]
         THEN "ShapeMismatchError"
         ELSE "None"

\* the second loop of cat from input i on: every non-skipped input is checked
\* against notSkippedTensor, then its size along the concat dimension is read
\* (size() rejects a dimension outside the tensor's rank) and summed
RECURSIVE ShapeLoop(_, _, _, _, _)
ShapeLoop(ts, notSkippedTensor, dim, i, cat_dim_size) ==
    IF i > Len(ts) THEN [err |-> "None", cat_dim_size |-> cat_dim_size]
    ELSE IF should_skip(ts[i])
         THEN ShapeLoop(ts, notSkippedTensor, dim, i + 1, cat_dim_size)
    ELSE IF check_shape_except_dim(notSkippedTensor, ts[i], dim) # "None"
         THEN [err |-> "ShapeMismatchError", cat_dim_size |-> cat_dim_size]
    ELSE IF dim >= Len(ts[i].sizes)
         THEN [err |-> "IndexError", cat_dim_size |-> cat_dim_size]
    ELSE ShapeLoop(ts, notSkippedTensor, dim, i + 1,
                   cat_dim_size + ts[i].sizes[dim + 1])

\* faulty variant: the concat dimension keeps notSkippedTensor's size
ResultSizeOfLast(notSkippedTensor, dim, cat_dim_size, nDims) ==
    [d \in 1..nDims |-> notSkippedTensor.sizes[d]]

\* the size vector cat resizes the result to
ResultSize(notSkippedTensor, dim, cat_dim_size, nDims) ==
    [d \in 1..nDims |->
        IF d - 1 = dim THEN cat_dim_size ELSE notSkippedTensor.sizes[d]]

\* faulty variant: an empty output is produced instead of returning
AllSkippedResizesToEmpty(scan) ==
    [outcome |-> "ok", err |-> "None", loc |-> [scan EXCEPT !.size = <<0>>]]

\* cat when the first loop assigned no notSkippedTensor: it returns
AllSkippedOutcome(scan) ==
    [outcome |-> "return", err |-> "None", loc |-> scan]

\* cat from the first loop up to the resize: "return" when every input is
\* skipped, "fail" with the first failing check, "ok" with the locals set
ShapeValidation(ts, dim) ==
    LET scan == ScanInputs(ts)
    IN  IF scan.notSkipped = 0
        THEN AllSkippedOutcome(scan)
        ELSE IF ~(Len(ts) > 0)
        THEN [outcome |-> "fail", err |-> "InvalidArgument", loc |-> scan]
        ELSE IF ~(dim >= 0)
        THEN [outcome |-> "fail", err |-> "InvalidArgument", loc |-> scan]
        ELSE LET sl == ShapeLoop(ts, ts[scan.notSkipped], dim, 1, 0)
             IN  IF sl.err # "None"
                 THEN [outcome |-> "fail", err |-> sl.err, loc |-> scan]
                 ELSE [outcome |-> "ok", err |-> "None",
                       loc |-> [scan EXCEPT !.size =
                                  ResultSize(ts[scan.notSkipped], dim,
                                             sl.cat_dim_size, scan.nDims)]]

\* get_overlap_status(result, inputs[i]) as the alias loop meets it: the loop
\* stops at the first input it rejects, so a scenario names one input (idx)
\* and its status; the inputs before it report NO.  idx = 0: all report NO.
\* An undefined placeholder has no storage and reports NO.
OverlapScenarios(ts) ==
    {[idx |-> 0, lap |-> "NO"]} \cup
    {[idx |-> i, lap |-> l] : i \in {k \in 1..Len(ts) : ts[k].defined},
                              l \in MemOverlapStatus \ {"NO"}}

\* faulty variant: a full overlap is let through
OverlapRejectedPartialOnly(lap) == lap = "PARTIAL"

\* the statuses the alias loop rejects
OverlapRejected(lap) == lap = "PARTIAL" \/ lap = "FULL"

\* the inputs of a scenario whose storage partially or fully overlaps the output
Overlapping(sc) == IF sc.lap \in {"PARTIAL", "FULL"} THEN {sc.idx} ELSE {}

\* what the alias loop leaves known of the overlapping inputs when it throws
\* (it rejected a scenario) and when it runs to its end (it rejected none)
RejectedOverlaps(ts) ==
    {Overlapping(sc) : sc \in {x \in OverlapScenarios(ts) : OverlapRejected(x.lap)}}

AcceptedOverlaps(ts) ==
    {Overlapping(sc) : sc \in {x \in OverlapScenarios(ts) : ~OverlapRejected(x.lap)}}

\* a TORCH_CHECK failed: the exception leaves the call, whose arguments and
\* locals are gone; the caller is left with the error and its output tensor
Throw(e) ==
    /\ pc' = "failed"
    /\ err' = e
    /\ inputs' = <<>>
    /\ dimension' = 0
    /\ allSameType' = FALSE
    /\ loc' = NoLoc
    /\ UNCHANGED << result, effects, path, flags, ub >>

\* ------------------------------------------------------------- _cat_out
\* _cat_out up to the call of cat or of the oneDNN concat
CatOutAlias ==
    /\ pc = "_cat_out"
    /\ \E ov \in RejectedOverlaps(inputs) :
          /\ overlapping' = ov
          /\ Throw("AliasingError")
    /\ UNCHANGED castable
    /\ UNCHANGED notcat

CatOutInternalOverlap ==
    /\ pc = "_cat_out"
    /\ Throw("InternalOverlapError")
    /\ UNCHANGED << castable, overlapping >>
    /\ UNCHANGED notcat

\* tensors[0] of an empty list reads past the list: the call may crash, or
\* go on with whatever element type the read produced
CatOutEmptyList ==
    /\ pc = "_cat_out"
    /\ Len(inputs) = 0
    /\ pc' = "crashed"
    /\ UNCHANGED << inputs, dimension, allSameType, result, err, castable,
                    overlapping, loc, effects, path, flags, ub >>
    /\ UNCHANGED notcat

CatOutCallCat ==
    /\ pc = "_cat_out"
    /\ overlapping' \in AcceptedOverlaps(inputs)
    /\ allSameType' \in {same \in BOOLEAN : \E cat_valid \in BOOLEAN : ~same \/ ~cat_valid}
    /\ pc' = "cat"
    /\ UNCHANGED << inputs, dimension, result, err, castable, loc, effects,
                    path, flags, ub >>
    /\ UNCHANGED notcat

CatOutCallOneDNN ==
    /\ pc = "_cat_out"
    /\ overlapping' \in AcceptedOverlaps(inputs)
    /\ allSameType' = TRUE
    /\ pc' = "onednn_concat"
    /\ UNCHANGED << inputs, dimension, result, err, castable, loc, effects,
                    path, flags, ub >>
    /\ UNCHANGED notcat

\* ------------------------------------------------------------------ cat
\* canCast(result_type(inputs), result.scalar_type()): false only when the
\* element types differ
CastChoices(same) == IF same THEN {TRUE} ELSE BOOLEAN

\* faulty variant: the type check is missing
TypeCheckNeverFails(c) == FALSE

\* TORCH_CHECK(canCast(...)) fails
TypeCheckFails(c) == ~c

Castable(c) == IF c THEN "yes" ELSE "no"

\* the values of castable with which cat gets past the type check
TypeCheckPassed(same) ==
    {Castable(c) : c \in {x \in CastChoices(same) : ~TypeCheckFails(x)}}

CatTypeError ==
    /\ pc = "cat"
    /\ \E c \in CastChoices(allSameType) :
          /\ TypeCheckFails(c)
          /\ castable' = Castable(c)
    /\ Throw("TypeError")
    /\ UNCHANGED overlapping
    /\ UNCHANGED notcat

CatAlias ==
    /\ pc = "cat"
    /\ castable' \in TypeCheckPassed(allSameType)
    /\ \E ov \in RejectedOverlaps(inputs) :
          /\ overlapping' = ov
          /\ Throw("AliasingError")
    /\ UNCHANGED notcat

CatInternalOverlap ==
    /\ pc = "cat"
    /\ castable' \in TypeCheckPassed(allSameType)
    /\ Throw("InternalOverlapError")
    /\ UNCHANGED overlapping
    /\ UNCHANGED notcat

\* faulty variant: the result is resized before the shapes are checked
CatValidateLateShapeCheck ==
    /\ pc = "cat"
    /\ castable' \in TypeCheckPassed(allSameType)
    /\ overlapping' \in AcceptedOverlaps(inputs)
    /\ LET v == ShapeValidation(inputs, dimension)
       IN  \/ /\ v.outcome = "fail"
              /\ pc' = "failed"
              /\ err' = v.err
              /\ inputs' = <<>>
              /\ dimension' = 0
              /\ allSameType' = FALSE
              /\ loc' = NoLoc
              /\ result' = [result EXCEPT !.sizes = inputs[v.loc.notSkipped].sizes]
              /\ effects' = Append(effects, "resize")
              /\ UNCHANGED << path, flags, ub >>
           \/ /\ v.outcome = "return"
              /\ pc' = "done"
              /\ loc' = v.loc
              /\ UNCHANGED << inputs, dimension, allSameType, result, err,
                              effects, path, flags, ub >>
           \/ /\ v.outcome = "ok"
              /\ pc' = "resize"
              /\ loc' = v.loc
              /\ UNCHANGED << inputs, dimension, allSameType, result, err,
                              effects, path, flags, ub >>
    /\ UNCHANGED notcat

\* the checks pass up to assert_no_internal_overlap; the loops up to the resize
CatValidate ==
    /\ pc = "cat"
    /\ castable' \in TypeCheckPassed(allSameType)
    /\ overlapping' \in AcceptedOverlaps(inputs)
    /\ LET v == ShapeValidation(inputs, dimension)
       IN  \/ /\ v.outcome = "fail"
              /\ Throw(v.err)
           \/ /\ v.outcome = "return"
              /\ pc' = "done"
              /\ loc' = v.loc
              /\ UNCHANGED << inputs, dimension, allSameType, result, err,
                              effects, path, flags, ub >>
           \/ /\ v.outcome = "ok"
              /\ pc' = "resize"
              /\ loc' = v.loc
              /\ UNCHANGED << inputs, dimension, allSameType, result, err,
                              effects, path, flags, ub >>
    /\ UNCHANGED notcat

\* --------------------------------------------------------------- resize
\* result.resize_(size, ft_smf): the storage keeps the cells it had, the new
\* cells are not initialised (cell value 0)
ResizedData(data, n) ==
    [k \in 1..n |-> IF k <= Len(data) THEN data[k] ELSE 0]

CatResize ==
    /\ pc = "resize"
    /\ result' = [sizes |-> loc.size,
                  strides |-> ContiguousStrides(loc.size),
                  data |-> ResizedData(result.data, numel(loc.size))]
    /\ effects' = Append(effects, "resize")
    /\ pc' = "copy"
    /\ UNCHANGED << inputs, dimension, allSameType, err, castable,
                    overlapping, loc, path, flags, ub >>
    /\ UNCHANGED notcat

\* ------------------------------------------------- the batched copy kernel
\* faulty variant: the per-dimension index is not multiplied by the output stride
RECURSIVE ComputeLoopUnitStride(_, _, _, _, _, _, _)
ComputeLoopUnitStride(i, outputSize, outputStride, dimSize, concatDim, linearIndex, offset) ==
    IF i < 1 THEN offset + linearIndex
    ELSE LET curDimSize == IF i = concatDim THEN dimSize ELSE outputSize[i + 1]
             nextDimIndex == linearIndex \div curDimSize
             curDimIndex == linearIndex - curDimSize * nextDimIndex
         IN  ComputeLoopUnitStride(i - 1, outputSize, outputStride, dimSize,
                                   concatDim, nextDimIndex, offset + curDimIndex)

\* faulty variant: the divisor is the output's size at every dimension
RECURSIVE ComputeLoopOutputSize(_, _, _, _, _, _, _)
ComputeLoopOutputSize(i, outputSize, outputStride, dimSize, concatDim, linearIndex, offset) ==
    IF i < 1 THEN offset + linearIndex * outputStride[1]
    ELSE LET curDimSize == outputSize[i + 1]
             nextDimIndex == linearIndex \div curDimSize
             curDimIndex == linearIndex - curDimSize * nextDimIndex
             curDimOffset == curDimIndex * outputStride[i + 1]
         IN  ComputeLoopOutputSize(i - 1, outputSize, outputStride, dimSize,
                                   concatDim, nextDimIndex, offset + curDimOffset)

\* CatArrIndexToOffset<IndexType, Dims>::compute, its loop from dimension i down
RECURSIVE ComputeLoop(_, _, _, _, _, _, _)
ComputeLoop(i, outputSize, outputStride, dimSize, concatDim, linearIndex, offset) ==
    IF i < 1 THEN offset + linearIndex * outputStride[1]
    ELSE LET curDimSize == IF i = concatDim THEN dimSize ELSE outputSize[i + 1]
             nextDimIndex == linearIndex \div curDimSize
             curDimIndex == linearIndex - curDimSize * nextDimIndex
             curDimOffset == curDimIndex * outputStride[i + 1]
         IN  ComputeLoop(i - 1, outputSize, outputStride, dimSize, concatDim,
                         nextDimIndex, offset + curDimOffset)

CatArrIndexToOffset(Dims, outputSize, outputStride, dimSize, concatDim, linearIndex) ==
    ComputeLoop(Dims - 1, outputSize, outputStride, dimSize, concatDim,
                linearIndex, 0)

\* the element indices one work item of the grid-stride loop visits: it starts
\* at its global id w and advances by the global range
WorkItemTids(w, nElements) ==
    {tid \in 0..(nElements - 1) : tid >= w /\ (tid - w) % GridWorkers = 0}

\* faulty variant: the slice base is the offset along the concat dimension, not
\* multiplied by the stride of that dimension
InputWritesNoStride(desc, os, concatDim, dimStride, Dims) ==
    LET dataOffset == desc.offset
    IN  UNION { { << dataOffset
                       + CatArrIndexToOffset(Dims, os.outputSize, os.outputStride,
                                             desc.dimSize, concatDim, tid),
                     Elem(desc.input, tid) >> : tid \in WorkItemTids(w, desc.nElements) }
                : w \in 0..(GridWorkers - 1) }

\* the writes <<output offset, value>> of the work items of input desc
InputWrites(desc, os, concatDim, dimStride, Dims) ==
    LET dataOffset == desc.offset * dimStride
    IN  UNION { { << dataOffset
                       + CatArrIndexToOffset(Dims, os.outputSize, os.outputStride,
                                             desc.dimSize, concatDim, tid),
                     Elem(desc.input, tid) >> : tid \in WorkItemTids(w, desc.nElements) }
                : w \in 0..(GridWorkers - 1) }

\* all writes of one dispatch: the grid's second axis runs over the batch
KernelWrites(descs, os, concatDim, dimStride, batchCounter, Dims) ==
    UNION { InputWrites(descs[b], os, concatDim, dimStride, Dims) : b \in 1..batchCounter }

\* the work items run in no order: a cell two of them write ends with either
\* value; a cell none writes keeps its value
RECURSIVE CellOutcomes(_, _, _)
CellOutcomes(data, writes, k) ==
    IF k = 0 THEN {<<>>}
    ELSE LET vals == {w[2] : w \in {x \in writes : x[1] = k - 1}}
             cell == IF vals = {} THEN {data[k]} ELSE vals
         IN  {Append(d, v) : d \in CellOutcomes(data, writes, k - 1), v \in cell}

\* a dispatch is undefined when a write leaves the output's storage or two
\* work items write one cell
WritesHazard(writes, extent) ==
    \/ \E w \in writes : w[1] < 0 \/ w[1] >= extent
    \/ \E w1 \in writes, w2 \in writes : w1[1] = w2[1] /\ w1[2] # w2[2]

\* CatArrayBatchedCopy: the contents the output can have after the dispatch
CatArrayBatchedCopy(output, descs, os, concatDim, dimStride, batchCounter, Dims) ==
    CellOutcomes(output,
                 KernelWrites(descs, os, concatDim, dimStride, batchCounter, Dims),
                 Len(output))

\* --------------------------------------------------------- parallel_cat
RECURSIVE SumDim(_, _, _, _)
SumDim(ts, dim, from, to) ==
    IF from > to THEN 0
    ELSE ts[from].sizes[dim + 1] + SumDim(ts, dim, from + 1, to)

\* faulty variant: the running offset is not advanced inside a batch
StackInputsNoRunningOffset(ts, dim, i, offset) ==
    LET batchCounter == Min2(CAT_ARRAY_BATCH_SIZE, Len(ts) - i)
    IN  [b \in 1..batchCounter |->
            [input |-> i + b,
             offset |-> offset,
             dimSize |-> ts[i + b].sizes[dim + 1],
             nElements |-> numel(ts[i + b].sizes)]]

\* the staging buffer of the batch that starts at input i (0-based) with the
\* running offset as the earlier batches left it
StackInputs(ts, dim, i, offset) ==
    LET batchCounter == Min2(CAT_ARRAY_BATCH_SIZE, Len(ts) - i)
    IN  [b \in 1..batchCounter |->
            [input |-> i + b,
             offset |-> offset + SumDim(ts, dim, i + 1, i + b - 1),
             dimSize |-> ts[i + b].sizes[dim + 1],
             nElements |-> numel(ts[i + b].sizes)]]

\* the switch on nDims: a dispatch for 1, 2 and 3, nothing otherwise
HandleCase(output, descs, os, dim, nDims) ==
    IF nDims \in 1..CAT_ARRAY_MAX_INPUT_DIMS
    THEN CatArrayBatchedCopy(output, descs, os, dim, os.outputStride[dim + 1],
                             Len(descs), nDims)
    ELSE {output}

\* the batch loop of parallel_cat from input i on: the set of contents the
\* output can end with, the dispatches running in queue order
RECURSIVE ParallelCatFrom(_, _, _, _, _, _, _)
ParallelCatFrom(outputs, ts, dim, nDims, os, i, offset) ==
    IF i >= Len(ts) THEN outputs
    ELSE LET descs == StackInputs(ts, dim, i, offset)
         IN  ParallelCatFrom(
                 UNION {HandleCase(o, descs, os, dim, nDims) : o \in outputs},
                 ts, dim, nDims, os, i + CAT_ARRAY_BATCH_SIZE,
                 offset + SumDim(ts, dim, i + 1, i + Len(descs)))

RECURSIVE ParallelCatHazard(_, _, _, _, _, _, _)
ParallelCatHazard(extent, ts, dim, nDims, os, i, offset) ==
    IF i >= Len(ts) THEN FALSE
    ELSE LET descs == StackInputs(ts, dim, i, offset)
         IN  \/ /\ nDims \in 1..CAT_ARRAY_MAX_INPUT_DIMS
                /\ WritesHazard(KernelWrites(descs, os, dim, os.outputStride[dim + 1],
                                             Len(descs), nDims), extent)
             \/ ParallelCatHazard(extent, ts, dim, nDims, os,
                                  i + CAT_ARRAY_BATCH_SIZE,
                                  offset + SumDim(ts, dim, i + 1, i + Len(descs)))

\* the side effects of parallel_cat in order: per batch the transfer of the
\* staging buffer to the device metadata, then the dispatch
RECURSIVE ParallelCatEffects(_, _)
ParallelCatEffects(n, i) ==
    IF i >= n THEN <<>>
    ELSE << "metadata_transfer", "kernel" >> \o ParallelCatEffects(n, i + CAT_ARRAY_BATCH_SIZE)

OutputParam(out, nDims) ==
    [outputSize |-> SubSeq(out.sizes, 1, nDims),
     outputStride |-> SubSeq(out.strides, 1, nDims)]

parallel_cat(out, ts, dim, nDims) ==
    ParallelCatFrom({out.data}, ts, dim, nDims, OutputParam(out, nDims), 0, 0)

\* ------------------------------------------------ the narrow-and-copy loop
\* at::narrow(result, dimension, offset, dimSize).copy_(inputs[j]): element
\* lin of the input goes to the cell of its multi-index in the narrowed view
NarrowCopy(data, strides, dim, offset, t, j) ==
    LET base == offset * strides[dim + 1]
        cellOf(lin) == base + Dot(Unravel(lin, t.sizes), strides)
        n == numel(t.sizes)
    IN  [k \in 1..Len(data) |->
            IF \E lin \in 0..(n - 1) : cellOf(lin) = k - 1
            THEN Elem(j, CHOOSE lin \in 0..(n - 1) : cellOf(lin) = k - 1)
            ELSE data[k]]

\* faulty variant: offset is not advanced after a copy
RECURSIVE FallbackLoopNoAdvance(_, _, _, _, _, _, _)
FallbackLoopNoAdvance(data, strides, ts, dim, j, offset, narrows) ==
    IF j > Len(ts) THEN [data |-> data, offset |-> offset, narrows |-> narrows]
    ELSE IF should_skip(ts[j])
    THEN FallbackLoopNoAdvance(data, strides, ts, dim, j + 1, offset, narrows)
    ELSE LET dimSize == ts[j].sizes[dim + 1]
         IN  FallbackLoopNoAdvance(
                 NarrowCopy(data, strides, dim, offset, ts[j], j), strides, ts, dim,
                 j + 1, offset,
                 Append(narrows, [input |-> j, offset |-> offset, dimSize |-> dimSize]))

\* the loop of the else branch from input j on: the output's storage, the
\* running offset and the narrows made, in order
RECURSIVE FallbackLoop(_, _, _, _, _, _, _)
FallbackLoop(data, strides, ts, dim, j, offset, narrows) ==
    IF j > Len(ts) THEN [data |-> data, offset |-> offset, narrows |-> narrows]
    ELSE IF should_skip(ts[j])
    THEN FallbackLoop(data, strides, ts, dim, j + 1, offset, narrows)
    ELSE LET dimSize == ts[j].sizes[dim + 1]
         IN  FallbackLoop(
                 NarrowCopy(data, strides, dim, offset, ts[j], j), strides, ts, dim,
                 j + 1, offset + dimSize,
                 Append(narrows, [input |-> j, offset |-> offset, dimSize |-> dimSize]))

FallbackFrom(data, strides, ts, dim, j, offset) ==
    FallbackLoop(data, strides, ts, dim, j, offset, <<>>).data

FallbackCopy(out, ts, dim) == FallbackFrom(out.data, out.strides, ts, dim, 1, 0)

FallbackEffects(ts) ==
    [k \in 1..Cardinality({j \in 1..Len(ts) : ~should_skip(ts[j])}) |-> "narrow_copy"]

\* ------------------------------------------------------ the path decision
\* faulty variant: the rank of the output is not looked at
FastPathEligibleAnyRank(n, hasSkippedInput, rank, result32, allContiguous, all32BitIndexable, same) ==
    /\ n > 1
    /\ ~hasSkippedInput
    /\ result32
    /\ allContiguous
    /\ all32BitIndexable
    /\ same

\* the condition under which cat calls parallel_cat
FastPathEligible(n, hasSkippedInput, rank, result32, allContiguous, all32BitIndexable, same) ==
    /\ n > 1
    /\ ~hasSkippedInput
    /\ rank <= CAT_ARRAY_MAX_INPUT_DIMS
    /\ result32
    /\ allContiguous
    /\ all32BitIndexable
    /\ same

FlagChoices ==
    [allContiguous : BOOLEAN, all32BitIndexable : BOOLEAN, result32 : BOOLEAN]

CatParallel ==
    /\ pc = "copy"
    /\ \E f \in FlagChoices :
          /\ FastPathEligible(Len(inputs), loc.hasSkippedInput, Len(result.sizes),
                              f.result32, f.allContiguous, f.all32BitIndexable,
                              allSameType)
          /\ flags' = f
    /\ \E d \in parallel_cat(result, inputs, dimension, loc.nDims) :
          result' = [result EXCEPT !.data = d]
    /\ ub' = ParallelCatHazard(Len(result.data), inputs, dimension, loc.nDims,
                               OutputParam(result, loc.nDims), 0, 0)
    /\ effects' = effects \o ParallelCatEffects(Len(inputs), 0)
    /\ path' = "fast"
    /\ pc' = "done"
    /\ UNCHANGED << inputs, dimension, allSameType, err, castable, overlapping, loc >>
    /\ UNCHANGED notcat

CatFallback ==
    /\ pc = "copy"
    /\ \E f \in FlagChoices :
          /\ ~FastPathEligible(Len(inputs), loc.hasSkippedInput, Len(result.sizes),
                               f.result32, f.allContiguous, f.all32BitIndexable,
                               allSameType)
          /\ flags' = f
    /\ result' = [result EXCEPT !.data = FallbackCopy(result, inputs, dimension)]
    /\ LET r == FallbackLoop(result.data, result.strides, inputs, dimension, 1, 0, <<>>)
       IN  loc' = [loc EXCEPT !.offset = r.offset, !.narrows = r.narrows]
    /\ effects' = effects \o FallbackEffects(inputs)
    /\ path' = "fallback"
    /\ pc' = "done"
    /\ UNCHANGED << inputs, dimension, allSameType, err, castable, overlapping, ub >>
    /\ UNCHANGED notcat

Next ==
    \/ CatOutAlias
    \/ CatOutInternalOverlap
    \/ CatOutEmptyList
    \/ CatOutCallCat
    \/ CatOutCallOneDNN
    \/ CatTypeError
    \/ CatAlias
    \/ CatInternalOverlap
    \/ CatValidate
    \/ CatResize
    \/ CatParallel
    \/ CatFallback

Spec == Init /\ [][Next]_vars

\* =============================================================== Linear.cpp
\* Scalars and matmul result elements are small integers, which toFloat()
\* and to<float>() represent exactly; a float the code computes by division
\* is kept as the pair <<numerator, denominator>>.
MaxScalar == 2
Scalars == (0 - MaxScalar)..MaxScalar
PlainValues == (0 - MaxScalar)..MaxScalar

Rat(n, d) == << n, d >>

\* a non-zero double whose magnitude is below half the smallest positive
\* float: the one Scalar of the model that float does not represent
Subnormal == MaxScalar + 1

\* Scalar::toFloat(): exact on the small integers, rounds Subnormal to 0
toFloat(s) == IF s = Subnormal THEN 0 ELSE s

\* the value of an element of a returned tensor whose post-ops are binary
\* adds: the plain result plus scale * operand for each
RECURSIVE AddedValue(_, _)
AddedValue(x, applied) ==
    IF applied = <<>> THEN x
    ELSE AddedValue(x + applied[1].scale * applied[1].operand, Tail(applied))

\* Attr::append_post_eltwise(scale, alpha, beta, algorithm) on an empty Attr
append_post_eltwise(scale, alpha, beta, algorithm) ==
    << [kind |-> "eltwise", algorithm |-> algorithm, scale |-> scale,
        alpha |-> alpha, beta |-> beta, operand |-> 0] >>

\* Attr::append_scale_binary(algorithm, binary, scale) on an empty Attr
append_scale_binary(algorithm, binary, scale) ==
    << [kind |-> "binary", algorithm |-> algorithm, scale |-> scale,
        alpha |-> Rat(0, 1), beta |-> Rat(0, 1), operand |-> binary] >>

\* The fused-matmul service: it either runs the matmul with every post-op of
\* attr fused and reports isFused = true, or returns the plain matmul result
\* and reports isFused = false.
matmul_fusion_variants(x, attr) ==
    { [output |-> [plain |-> x, applied |-> attr], is_fused |-> TRUE],
      [output |-> [plain |-> x, applied |-> <<>>], is_fused |-> FALSE] }

\* faulty variant: the wrapper outlives the call and keeps its flag
LinearConverterShared(earlier) == earlier

\* LinearConverter(): is_fused_ = false, whatever an earlier wrapper held
LinearConverter(earlier) == FALSE

\* LinearConverter::call on the wrapper of this call: the service sets
\* is_fused_ through the reference it is handed; when it does not fuse it
\* writes false or leaves the flag as the constructor set it
LinearConverter_call(x, attr) ==
    UNION { { [output |-> r.output, is_fused |-> f]
                : f \in IF r.is_fused THEN {TRUE}
                        ELSE {FALSE, LinearConverter(linear.previous)} }
            : r \in matmul_fusion_variants(x, attr) }

\* at::func(output, binary) and add(output, accumul, alpha): the tensor the
\* binary post-op with that operand and scale would have produced
at_binary(output, func, binary, scale) ==
    [output EXCEPT !.applied = @ \o append_scale_binary(func, binary, scale)]

\* the value of an element of a returned tensor whose only possible post-op is
\* relu with negative slope alpha
ElementValue(t) ==
    IF t.applied = <<>> THEN t.plain
    ELSE LET slope == t.applied[1].alpha[1]
         IN  IF t.plain > 0 THEN t.plain ELSE slope * t.plain

Returned(name, x, args, attr, r, output) ==
    linear' = [entry |-> name, plain |-> x, args |-> args, attr |-> attr,
               called |-> TRUE, is_fused |-> r.is_fused, output |-> output,
               err |-> "None", calls |-> 1, previous |-> linear.previous]

Asserted(name, x, args) ==
    linear' = [LinearIdle EXCEPT !.entry = name, !.plain = x, !.args = args,
                                 !.err = "InternalAssert",
                                 !.previous = linear.previous]

\* an entry point that returns linear_wrapper.call(...) as it is
ReturnCall(name, x, args, attr) ==
    \E r \in LinearConverter_call(x, attr) : Returned(name, x, args, attr, r, r.output)

EltwiseFuncs == {"sqrt", "abs", "tanh", "square", "exp", "log", "round",
                 "sigmoid", "relu", "hardswish", "mish", "log_sigmoid"}
BinaryFuncs == {"mul", "div", "min", "max", "eq", "ne", "ge", "gt", "le", "lt"}

\* IPEX_LINEAR_DEFINATION(func)
linear_eltwise ==
    /\ linear.entry = "none"
    /\ \E func \in EltwiseFuncs, x \in PlainValues :
          ReturnCall("linear_" \o func, x, <<>>,
                     append_post_eltwise(1, Rat(0, 1), Rat(0, 1), func))
    /\ UNCHANGED notlinear

\* IPEX_LINEAR_BINARY_DEFINATION(func)
linear_binary ==
    /\ linear.entry = "none"
    /\ \E func \in BinaryFuncs, x \in PlainValues, binary \in Scalars :
          LET attr == append_scale_binary(func, binary, 1)
          IN  \E r \in LinearConverter_call(x, attr) :
                 Returned("linear_binary_" \o func, x, <<binary>>, attr, r,
                          IF ~r.is_fused THEN at_binary(r.output, func, binary, 1)
                          ELSE r.output)
    /\ UNCHANGED notlinear

linear_silu ==
    /\ linear.entry = "none"
    /\ \E x \in PlainValues :
          ReturnCall("linear_silu", x, <<>>,
                     append_post_eltwise(1, Rat(1, 1), Rat(0, 1), "swish"))
    /\ UNCHANGED notlinear

linear_scalar_mul ==
    /\ linear.entry = "none"
    /\ \E x \in PlainValues, scalar \in Scalars :
          ReturnCall("linear_scalar_mul", x, <<scalar>>,
                     append_post_eltwise(1, Rat(scalar, 1), Rat(0, 1), "linear"))
    /\ UNCHANGED notlinear

\* faulty variant: the zero check is missing
linear_scalar_div_unchecked ==
    /\ linear.entry = "none"
    /\ \E x \in PlainValues, scalar \in Scalars \cup {Subnormal} :
          ReturnCall("linear_scalar_div", x, <<scalar>>,
                     append_post_eltwise(1, Rat(1, toFloat(scalar)), Rat(0, 1), "linear"))
    /\ UNCHANGED notlinear

linear_scalar_div ==
    /\ linear.entry = "none"
    /\ \E x \in PlainValues, scalar \in Scalars \cup {Subnormal} :
          IF toFloat(scalar) = 0 THEN Asserted("linear_scalar_div", x, <<scalar>>)
          ELSE ReturnCall("linear_scalar_div", x, <<scalar>>,
                          append_post_eltwise(1, Rat(1, toFloat(scalar)), Rat(0, 1), "linear"))
    /\ UNCHANGED notlinear

\* the body of linear_scalar_add, under the name of the entry point called
ScalarAdd(name, x, args, scalar, scale) ==
    ReturnCall(name, x, args,
               append_post_eltwise(1, Rat(1, 1), Rat(scalar * scale, 1), "linear"))

linear_scalar_add ==
    /\ linear.entry = "none"
    /\ \E x \in PlainValues, scalar \in Scalars, scale \in Scalars :
          ScalarAdd("linear_scalar_add", x, <<scalar, scale>>, scalar, scale)
    /\ UNCHANGED notlinear

\* faulty variant: the negation is a record of its own ahead of the add
linear_scalar_sub_two_records ==
    /\ linear.entry = "none"
    /\ \E x \in PlainValues, scalar \in Scalars, scale \in Scalars :
          ReturnCall("linear_scalar_sub", x, <<scalar, scale>>,
                     append_post_eltwise(1, Rat(0 - 1, 1), Rat(0, 1), "linear")
                     \o append_post_eltwise(1, Rat(1, 1), Rat(scalar * scale, 1), "linear"))
    /\ UNCHANGED notlinear

linear_scalar_sub ==
    /\ linear.entry = "none"
    /\ \E x \in PlainValues, scalar \in Scalars, scale \in Scalars :
          ScalarAdd("linear_scalar_sub", x, <<scalar, scale>>, scalar, 0 - scale)
    /\ UNCHANGED notlinear

linear_gelu ==
    /\ linear.entry = "none"
    /\ \E x \in PlainValues, approximate \in {"none", "tanh", "other"} :
          IF approximate = "none"
          THEN ReturnCall("linear_gelu", x, <<>>,
                          append_post_eltwise(1, Rat(0, 1), Rat(0, 1), "gelu_erf"))
          ELSE IF approximate = "tanh"
          THEN ReturnCall("linear_gelu", x, <<>>,
                          append_post_eltwise(1, Rat(0, 1), Rat(0, 1), "gelu_tanh"))
          ELSE Asserted("linear_gelu", x, <<>>)
    /\ UNCHANGED notlinear

linear_hardsigmoid ==
    /\ linear.entry = "none"
    /\ \E x \in PlainValues :
          ReturnCall("linear_hardsigmoid", x, <<>>,
                     append_post_eltwise(1, Rat(1, 6), Rat(1, 2), "hardsigmoid"))
    /\ UNCHANGED notlinear

linear_pow ==
    /\ linear.entry = "none"
    /\ \E x \in PlainValues, exponent \in Scalars :
          ReturnCall("linear_pow", x, <<exponent>>,
                     append_post_eltwise(1, Rat(1, 1), Rat(exponent, 1), "pow"))
    /\ UNCHANGED notlinear

linear_leaky_relu ==
    /\ linear.entry = "none"
    /\ \E x \in PlainValues, negative_slope \in Scalars :
          ReturnCall("linear_leaky_relu", x, <<negative_slope>>,
                     append_post_eltwise(1, Rat(negative_slope, 1), Rat(0, 1), "relu"))
    /\ UNCHANGED notlinear

linear_hardtanh ==
    /\ linear.entry = "none"
    /\ \E x \in PlainValues, minval \in Scalars, maxval \in Scalars :
          ReturnCall("linear_hardtanh", x, <<minval, maxval>>,
                     append_post_eltwise(1, Rat(minval, 1), Rat(maxval, 1), "clip"))
    /\ UNCHANGED notlinear

linear_elu ==
    /\ linear.entry = "none"
    /\ \E x \in PlainValues, alpha \in Scalars, scale \in Scalars, input_scale \in Scalars :
          ReturnCall("linear_elu", x, <<alpha, scale, input_scale>>,
                     append_post_eltwise(1, Rat(alpha, 1), Rat(1, 1), "elu"))
    /\ UNCHANGED notlinear

\* the body of linear_sum, under the name of the entry point called
Sum(name, x, args, accumul, alpha) ==
    LET attr == append_scale_binary("add", accumul, alpha)
    IN  \E r \in LinearConverter_call(x, attr) :
           Returned(name, x, args, attr, r,
                    IF ~r.is_fused THEN at_binary(r.output, "add", accumul, alpha)
                    ELSE r.output)

linear_sum ==
    /\ linear.entry = "none"
    /\ \E x \in PlainValues, accumul \in Scalars, alpha \in Scalars :
          Sum("linear_sum", x, <<accumul, alpha>>, accumul, alpha)
    /\ UNCHANGED notlinear

\* faulty variant: the scale is handed on without negation
linear_binary_sub_as_add ==
    /\ linear.entry = "none"
    /\ \E x \in PlainValues, binary \in Scalars, alpha \in Scalars :
          Sum("linear_binary_sub", x, <<binary, alpha>>, binary, alpha)
    /\ UNCHANGED notlinear

linear_binary_sub ==
    /\ linear.entry = "none"
    /\ \E x \in PlainValues, binary \in Scalars, alpha \in Scalars :
          Sum("linear_binary_sub", x, <<binary, alpha>>, binary, 0 - alpha)
    /\ UNCHANGED notlinear

dpcpp_linear ==
    /\ linear.entry = "none"
    /\ \E x \in PlainValues : ReturnCall("dpcpp_linear", x, <<>>, <<>>)
    /\ UNCHANGED notlinear

\* the call has returned or failed: the wrapper is gone, the next call can
\* be made
linear_done ==
    /\ linear.entry # "none"
    /\ linear' = [LinearIdle EXCEPT !.previous = linear.is_fused]
    /\ UNCHANGED notlinear

\* no call of cat is in progress
InitLinear ==
    /\ linear = LinearIdle
    /\ linalg = LinalgIdle
    /\ pcat = PcatIdle
    /\ grid = GridIdle
    /\ arith = ArithIdle
    /\ pc = "idle"
    /\ inputs = <<>>
    /\ dimension = 0
    /\ allSameType = FALSE
    /\ result = PriorResult
    /\ err = "None"
    /\ castable = "unqueried"
    /\ overlapping = {}
    /\ loc = NoLoc
    /\ effects = <<>>
    /\ path = "none"
    /\ flags = NoFlags
    /\ ub = FALSE

NextLinear ==
    \/ linear_eltwise
    \/ linear_binary
    \/ linear_silu
    \/ linear_scalar_mul
    \/ linear_scalar_div
    \/ linear_scalar_add
    \/ linear_scalar_sub
    \/ linear_gelu
    \/ linear_hardsigmoid
    \/ linear_pow
    \/ linear_leaky_relu
    \/ linear_hardtanh
    \/ linear_elu
    \/ linear_sum
    \/ linear_binary_sub
    \/ dpcpp_linear
    \/ linear_done

SpecLinear == InitLinear /\ [][NextLinear]_vars

\* ================================================== BatchLinearAlgebra.cpp
\* ----------------------------------------------------------- triu / tril
MaxDim == 2
MaxDiag == 2

Max2(a, b) == IF a > b THEN a ELSE b

\* the 2-D layouts of self: contiguous, transposed, rows with one cell of
\* padding after each, every second column of a wider row-major matrix
Layouts == {"row_major", "column_major", "padded_rows", "padded_cols"}

LayoutStrides(layout, r, c) ==
    CASE layout = "row_major" -> << Max2(c, 1), 1 >>
      [] layout = "column_major" -> << 1, Max2(r, 1) >>
      [] layout = "padded_rows" -> << c + 1, 1 >>
      [] layout = "padded_cols" -> << 2 * Max2(c, 1), 2 >>

\* the number of storage cells from the first to the last element of a view
Extent(sizes, strides) ==
    IF sizes[1] = 0 \/ sizes[2] = 0 THEN 0
    ELSE 1 + (sizes[1] - 1) * strides[1] + (sizes[2] - 1) * strides[2]

\* the source element at (row, col): a non-zero token that names its position
Tok(row, col) == 10 * (row + 1) + (col + 1)

\* the storage of a view, by memory offset: its elements, and -1 in the cells
\* between them that belong to no element
ViewStorage(sizes, strides) ==
    [o \in 1..Extent(sizes, strides) |->
        IF \E row \in 0..(sizes[1] - 1), col \in 0..(sizes[2] - 1) :
              row * strides[1] + col * strides[2] = o - 1
        THEN LET rc == CHOOSE rc \in (0..(sizes[1] - 1)) \X (0..(sizes[2] - 1)) :
                          rc[1] * strides[1] + rc[2] * strides[2] = o - 1
             IN  Tok(rc[1], rc[2])
        ELSE 0 - 1]

MatrixView(sizes, layout) ==
    LET strides == LayoutStrides(layout, sizes[1], sizes[2])
    IN  [sizes |-> sizes, strides |-> strides, data |-> ViewStorage(sizes, strides)]

\* an output tensor before the call: cells the call has not written hold -2
StaleOutput(sizes, layout) ==
    LET strides == LayoutStrides(layout, sizes[1], sizes[2])
    IN  [sizes |-> sizes, strides |-> strides,
         data |-> [o \in 1..Extent(sizes, strides) |-> 0 - 2]]

\* the element of tensor t at (row, col)
At(t, row, col) == t.data[row * t.strides[1] + col * t.strides[2] + 1]

\* the <<row, col>> the kernel recovers from a flat index
Recover(linearIndex, stride0, stride1) ==
    IF stride0 > stride1
    THEN << linearIndex \div stride0, (linearIndex % stride0) \div stride1 >>
    ELSE << (linearIndex % stride1) \div stride0, linearIndex \div stride1 >>

\* the mask of the kernel at <<row, col>>
Mask(upper, row, col, k) ==
    IF upper THEN col - row >= k ELSE col - row <= k

\* faulty variant: a work item reads the source of the next index
ReadIndexNext(linearIndex, N) == (linearIndex + 1) % N

\* src_ptr[linearIndex]: the one source index a work item reads
ReadIndex(linearIndex, N) == linearIndex

\* triu_tril_dpcpp_kernel: the grid-stride loop gives every linearIndex in
\* [0, N) to exactly one work item; the result's storage after the kernel
triu_tril_dpcpp_kernel(upper, res, src, stride0, stride1, k, N) ==
    [o \in 1..Len(res) |->
        IF o - 1 < N
        THEN LET rc == Recover(o - 1, stride0, stride1)
             IN  IF Mask(upper, rc[1], rc[2], k) THEN src[ReadIndex(o - 1, N) + 1] ELSE 0
        ELSE res[o]]

\* kfn on the work item that holds linearIndex < N, result and src being the
\* same storage mem: it reads src_ptr, then writes result_ptr[linearIndex]
kfn(upper, mem, linearIndex, stride0, stride1, k, N) ==
    LET rc == Recover(linearIndex, stride0, stride1)
    IN  [mem EXCEPT ![linearIndex + 1] =
            IF Mask(upper, rc[1], rc[2], k) THEN mem[ReadIndex(linearIndex, N) + 1] ELSE 0]

\* the kernel on one storage for result and src: the range is at least N, so
\* every linearIndex < N has a work item of its own, and the work items run
\* in any order; the storages the runs can end with
RECURSIVE triu_tril_dpcpp_kernel_inplace(_, _, _, _, _, _)
triu_tril_dpcpp_kernel_inplace(runs, upper, stride0, stride1, k, N) ==
    IF \A run \in runs : run.pending = {} THEN {run.mem : run \in runs}
    ELSE triu_tril_dpcpp_kernel_inplace(
             UNION { { [mem |-> kfn(upper, run.mem, i, stride0, stride1, k, N),
                        pending |-> run.pending \ {i}] : i \in run.pending }
                     : run \in runs },
             upper, stride0, stride1, k, N)

\* triu_tril_dpcpp_template<upper>
triu_tril_dpcpp_template(upper, res, self, k) ==
    LET N == self.sizes[1] * self.sizes[2]
    IN  [res EXCEPT !.data = triu_tril_dpcpp_kernel(upper, res.data, self.data,
                                                       self.strides[1], self.strides[2],
                                                       k, N)]

\* result.resize_as_(self): the sizes of self, contiguous
resize_as_(res, self) == StaleOutput(self.sizes, "row_major")

\* faulty variant: the emptiness test comes before the resize
triu_tril_dpcpp_out_empty_first(upper, res, self, k) ==
    IF self.sizes[1] * self.sizes[2] = 0 THEN res
    ELSE triu_tril_dpcpp_template(upper,
                                  IF res.sizes # self.sizes THEN resize_as_(res, self)
                                  ELSE res,
                                  self, k)

\* what tril_dpcpp_out / triu_dpcpp_out do besides returning: the resize of a
\* result of other sizes, the kernel unless self is empty
TriEffects(res, self) ==
    (IF res.sizes # self.sizes THEN << "resize_as_" >> ELSE <<>>)
    \o (IF self.sizes[1] * self.sizes[2] = 0 THEN <<>> ELSE << "kernel" >>)

\* tril_dpcpp_out / triu_dpcpp_out
triu_tril_dpcpp_out(upper, res, self, k) ==
    LET resized == IF res.sizes # self.sizes THEN resize_as_(res, self)
                   ELSE res
    IN  IF self.sizes[1] * self.sizes[2] = 0 THEN resized
        ELSE triu_tril_dpcpp_template(upper, resized, self, k)

MatrixSizes == (0..MaxDim) \X (0..MaxDim)
Diagonals == (0 - MaxDiag)..MaxDiag

\* the outputs a caller can hand to the out variants: of the sizes of self in
\* any layout, or of other sizes
OutputsFor(self) ==
    {StaleOutput(self.sizes, layout) : layout \in Layouts}
    \cup {StaleOutput(<< self.sizes[1] + 1, self.sizes[2] >>, "row_major")}

TriCall(name, upper, res, self, k) ==
    linalg' = [entry |-> name,
               args |-> [upper |-> upper, k |-> k, self |-> self, res |-> res],
               out |-> triu_tril_dpcpp_out(upper, res, self, k),
               effects |-> TriEffects(res, self), err |-> "None"]

\* tril_out -> tril_dpcpp_out
tril_out ==
    /\ linalg.entry = "none"
    /\ \E sizes \in MatrixSizes, layout \in Layouts, k \in Diagonals :
          LET self == MatrixView(sizes, layout)
          IN  \E res \in OutputsFor(self) : TriCall("tril_out", FALSE, res, self, k)
    /\ UNCHANGED notlinalg

\* triu_out -> triu_dpcpp_out
triu_out ==
    /\ linalg.entry = "none"
    /\ \E sizes \in MatrixSizes, layout \in Layouts, k \in Diagonals :
          LET self == MatrixView(sizes, layout)
          IN  \E res \in OutputsFor(self) : TriCall("triu_out", TRUE, res, self, k)
    /\ UNCHANGED notlinalg

\* tril_dpcpp_out / triu_dpcpp_out handed self as result: the sizes are equal,
\* nothing is resized, an empty self returns at once, and the kernel runs on
\* one storage
TriCallInPlace(name, upper, self, k) ==
    LET N == self.sizes[1] * self.sizes[2]
    IN  \E d \in IF N = 0 THEN {self.data}
                 ELSE triu_tril_dpcpp_kernel_inplace(
                          {[mem |-> self.data, pending |-> 0..(N - 1)]}, upper,
                          self.strides[1], self.strides[2], k, N) :
           linalg' = [entry |-> name,
                      args |-> [upper |-> upper, k |-> k, self |-> self, res |-> self],
                      out |-> [self EXCEPT !.data = d],
                      effects |-> TriEffects(self, self), err |-> "None"]

\* tril_ -> tril_out(self, self, diagonal)
tril_ ==
    /\ linalg.entry = "none"
    /\ \E sizes \in MatrixSizes, layout \in Layouts, k \in Diagonals :
          TriCallInPlace("tril_", FALSE, MatrixView(sizes, layout), k)
    /\ UNCHANGED notlinalg

\* triu_ -> triu_out(self, self, diagonal)
triu_ ==
    /\ linalg.entry = "none"
    /\ \E sizes \in MatrixSizes, layout \in Layouts, k \in Diagonals :
          TriCallInPlace("triu_", TRUE, MatrixView(sizes, layout), k)
    /\ UNCHANGED notlinalg

\* ------------------------------------------------------------- LU and SVD
MaxBatch == 2
MaxStatus == 1

\* self of the factorizations: rank 1 (a vector), rank 2 (one m x n matrix)
\* or rank 3 (batch matrices of m x n)
FactorInputs ==
    {[rank |-> 1, batch |-> 1, m |-> 1, n |-> n] : n \in 0..MaxDim}
    \cup {[rank |-> 2, batch |-> 1, m |-> m, n |-> n] : m \in 0..MaxDim, n \in 0..MaxDim}
    \cup {[rank |-> 3, batch |-> b, m |-> m, n |-> n] :
             b \in 0..MaxBatch, m \in 1..MaxDim, n \in 1..MaxDim}

\* native::batchCount(self)
batchCount(self) == IF self.rank > 2 THEN self.batch ELSE 1

FactorNumel(self) == self.batch * self.m * self.n

\* The factorization service: besides the factors, one status per batch
\* element, 0 for success.
ServiceStatuses(count) == [1..count -> 0..MaxStatus]

NoFailure == [err |-> "None", batch |-> 0 - 1, status |-> 0]

\* native::batchCheckErrors(infos, name): the first non-zero entry fails the
\* call and is reported with its batch index
batchCheckErrors(infos) ==
    IF \E b \in 1..Len(infos) : infos[b] # 0
    THEN LET b == CHOOSE b \in 1..Len(infos) :
                     infos[b] # 0 /\ \A a \in 1..(b - 1) : infos[a] = 0
         IN  [err |-> "FactorizationFailure", batch |-> b - 1, status |-> infos[b]]
    ELSE NoFailure

\* native::singleCheckErrors(info, name)
singleCheckErrors(info) ==
    IF info # 0 THEN [err |-> "FactorizationFailure", batch |-> 0 - 1, status |-> info]
    ELSE NoFailure

\* the check both factorizations run on the infos they hold
CheckErrors(self, infos) ==
    IF self.rank > 2 THEN batchCheckErrors(infos) ELSE singleCheckErrors(infos[1])

\* a call that failed: nothing is returned
FactorFailed(done, e, status, infos, failure) ==
    [effects |-> done, err |-> e,
     out |-> [returned |-> FALSE, status |-> status, infos |-> infos,
              failure |-> failure]]

FactorReturned(done, status, infos) ==
    [effects |-> done, err |-> "None",
     out |-> [returned |-> TRUE, status |-> status, infos |-> infos,
              failure |-> NoFailure]]

\* faulty variant: a call without pivoting goes on
PivotIgnored(pivot) == TRUE

\* TORCH_CHECK(pivot, ...)
PivotCheck(pivot) == pivot

\* apply_lu_dpcpp_: the effects of the branch the build has, and the infos
\* tensor after it; getrf_batch is handed no infos and infos_ is not written
apply_lu_dpcpp_(onemkl, infos_) ==
    IF onemkl
    THEN [effects |-> << "scratchpad", "getrf_batch" >>, err |-> "None", infos |-> infos_]
    ELSE [effects |-> <<>>, err |-> "BackendMissing", infos |-> infos_]

\* _lu_with_info; status is what the service produces if it is called
lu_with_info_outcome(self, pivot, check_errors, onemkl, status) ==
    LET infos_tensor == [b \in 1..batchCount(self) |-> 0]
        none == <<>>
        allocs == << "alloc_pivots", "alloc_infos" >>
    IN  IF ~PivotCheck(pivot)
        THEN FactorFailed(<<>>, "UnsupportedConfiguration", none, none, NoFailure)
        ELSE IF self.rank < 2
        THEN FactorFailed(<<>>, "InvalidArgument", none, none, NoFailure)
        ELSE IF self.m # self.n
        THEN FactorFailed(<<>>, "NotSquare", none, none, NoFailure)
        ELSE IF FactorNumel(self) = 0
        THEN LET failure == IF check_errors THEN CheckErrors(self, infos_tensor)
                            ELSE NoFailure
             IN  IF failure.err # "None"
                 THEN FactorFailed(allocs \o << "empty_like" >>, failure.err, none,
                                   infos_tensor, failure)
                 ELSE FactorReturned(allocs \o << "empty_like" >>, none, infos_tensor)
        ELSE LET lu == apply_lu_dpcpp_(onemkl, infos_tensor)
                 done == allocs \o << "clone" >> \o lu.effects
                 failure == IF check_errors THEN CheckErrors(self, lu.infos)
                            ELSE NoFailure
             IN  IF lu.err # "None"
                 THEN FactorFailed(done, lu.err, none, lu.infos, NoFailure)
                 ELSE IF failure.err # "None"
                 THEN FactorFailed(done, failure.err, status, lu.infos, failure)
                 ELSE FactorReturned(done, status, lu.infos)

\* apply_svd: gesvd is called once on the first matrix and infos is not
\* written
apply_svd(onemkl, infos) ==
    IF onemkl
    THEN [effects |-> << "scratchpad", "gesvd" >>, err |-> "None", infos |-> infos]
    ELSE [effects |-> <<>>, err |-> "BackendMissing", infos |-> infos]

\* _svd_helper
svd_helper_outcome(self, some, compute_uv, onemkl, status) ==
    LET infos == [b \in 1..batchCount(self) |-> 0]
        none == <<>>
    IN  IF self.rank < 2
        THEN FactorFailed(<<>>, "IndexError", none, infos, NoFailure)
        ELSE IF FactorNumel(self) = 0
        THEN FactorReturned(<< "create_U_S_VT", "zero_" >>, none, infos)
        ELSE LET svd == apply_svd(onemkl, infos)
                 done == << "create_U_S_VT", "clone" >> \o svd.effects
                 failure == CheckErrors(self, svd.infos)
             IN  IF svd.err # "None"
                 THEN FactorFailed(done, svd.err, none, svd.infos, NoFailure)
                 ELSE IF failure.err # "None"
                 THEN FactorFailed(done, failure.err, status, svd.infos, failure)
                 ELSE FactorReturned(done \o (IF compute_uv
                                                 THEN (IF some THEN << "narrow" >> ELSE <<>>)
                                                 ELSE << "zero_" >>),
                                     status, svd.infos)

\* svd and svd_out: TORCH_CHECK(self.dim() >= 2, ...), then _svd_helper
svd_outcome(self, some, compute_uv, onemkl, status) ==
    IF self.rank < 2
    THEN FactorFailed(<<>>, "InvalidArgument", <<>>, <<>>, NoFailure)
    ELSE svd_helper_outcome(self, some, compute_uv, onemkl, status)

\* the statuses the service can produce for one call
CallStatuses(self, perCall) ==
    IF FactorNumel(self) = 0 \/ self.rank < 2 THEN {<<>>}
    ELSE ServiceStatuses(IF perCall THEN 1 ELSE batchCount(self))

FactorCall(name, args, r) ==
    linalg' = [entry |-> name, args |-> args, out |-> r.out, effects |-> r.effects,
               err |-> r.err]

lu_with_info ==
    /\ linalg.entry = "none"
    /\ \E self \in FactorInputs, pivot \in BOOLEAN, check_errors \in BOOLEAN,
          onemkl \in BOOLEAN :
          \E status \in CallStatuses(self, FALSE) :
             FactorCall("_lu_with_info",
                        [self |-> self, pivot |-> pivot, check_errors |-> check_errors],
                        lu_with_info_outcome(self, pivot, check_errors, onemkl, status))
    /\ UNCHANGED notlinalg

svd_helper ==
    /\ linalg.entry = "none"
    /\ \E self \in FactorInputs, some \in BOOLEAN, compute_uv \in BOOLEAN,
          onemkl \in BOOLEAN :
          \E status \in CallStatuses(self, TRUE) :
             FactorCall("_svd_helper",
                        [self |-> self, some |-> some, compute_uv |-> compute_uv],
                        svd_helper_outcome(self, some, compute_uv, onemkl, status))
    /\ UNCHANGED notlinalg

svd ==
    /\ linalg.entry = "none"
    /\ \E self \in FactorInputs, some \in BOOLEAN, compute_uv \in BOOLEAN,
          onemkl \in BOOLEAN :
          \E status \in CallStatuses(self, TRUE) :
             FactorCall("svd",
                        [self |-> self, some |-> some, compute_uv |-> compute_uv],
                        svd_outcome(self, some, compute_uv, onemkl, status))
    /\ UNCHANGED notlinalg

svd_out ==
    /\ linalg.entry = "none"
    /\ \E self \in FactorInputs, some \in BOOLEAN, compute_uv \in BOOLEAN,
          onemkl \in BOOLEAN :
          \E status \in CallStatuses(self, TRUE) :
             LET r == svd_outcome(self, some, compute_uv, onemkl, status)
             IN  FactorCall("svd_out",
                            [self |-> self, some |-> some, compute_uv |-> compute_uv],
                            IF r.err = "None"
                            THEN [r EXCEPT !.effects = @ \o << "resize_as_", "copy_" >>]
                            ELSE r)
    /\ UNCHANGED notlinalg

InitLinalg ==
    /\ linear = LinearIdle
    /\ linalg = LinalgIdle
    /\ pcat = PcatIdle
    /\ grid = GridIdle
    /\ arith = ArithIdle
    /\ CatIdle

NextLinalg ==
    \/ tril_out
    \/ triu_out
    \/ tril_
    \/ triu_
    \/ lu_with_info
    \/ svd_helper
    \/ svd
    \/ svd_out

SpecLinalg == InitLinalg /\ [][NextLinalg]_vars

\* ===================================================================
\* parallel_cat, its batch loop step by step, and the ordered device queue
\* ===================================================================
\* CAT_ARRAY_BATCH_SIZE scaled down so that calls of several batches are
\* within the input counts explored
BatchCapacity == 2
MaxBatchInputs == 5

\* a slot of a metadata buffer nothing has been stored in
Uninit == [input |-> 0, offset |-> 0, dimSize |-> 0, nElements |-> 0]

\* at::empty({tensorMetadataSize}, ...): room for a full batch of descriptors
EmptyMetadata == [b \in 1..BatchCapacity |-> Uninit]

\* the calls cat makes on the fast path: two or more inputs of one rank
\* 1..CAT_ARRAY_MAX_INPUT_DIMS, contiguous, equal outside the concat dimension
EligibleCalls ==
    UNION { { [nDims |-> nDims, dim |-> dim,
               ts |-> [j \in 1..Len(d) |->
                         [defined |-> TRUE,
                          sizes |-> [k \in 1..nDims |->
                                       IF k = dim + 1 THEN d[j] ELSE other]]]]
              : d \in UNION {[1..n -> 1..MaxSize] : n \in 2..MaxBatchInputs} }
            : nDims \in 1..CAT_ARRAY_MAX_INPUT_DIMS,
              dim \in 0..(CAT_ARRAY_MAX_INPUT_DIMS - 1), other \in 1..MaxSize }

\* the output as cat resized it: contiguous, contents not yet written
ResizedOutput(ts, dim) ==
    LET sizes == [k \in 1..Len(ts[1].sizes) |->
                     IF k = dim + 1 THEN SumDim(ts, dim, 1, Len(ts)) ELSE ts[1].sizes[k]]
    IN  [sizes |-> sizes, strides |-> ContiguousStrides(sizes),
         data |-> [c \in 1..numel(sizes) |-> 0]]

\* faulty variant: every batch starts at offset 0
BatchStartOffsetReset(offset) == 0

\* offset is declared outside the batch loop: a batch starts with the offset
\* the batch before left
BatchStartOffset(offset) == offset

\* faulty variant: the next batch starts on the last input of this one
NextBatchStartOverlapping(i) == i + BatchCapacity - 1

\* i += CAT_ARRAY_BATCH_SIZE
NextBatchStart(i) == i + BatchCapacity

\* faulty variant: one staging buffer serves every batch
ReusedStaging(staging) == 1

\* at::empty(...) inside the loop body: a buffer no earlier batch holds
FreshStaging(staging) == Len(staging) + 1

StoreStaging(staging, buf, descs) ==
    IF buf > Len(staging) THEN Append(staging, descs)
    ELSE [staging EXCEPT ![buf] = descs]

\* the fill loop over batchCounter
RECURSIVE StackInputsLoop(_, _, _, _, _, _)
StackInputsLoop(stackInputs, ts, dim, i, batchCounter, offset) ==
    IF batchCounter < BatchCapacity /\ i + batchCounter < Len(ts)
    THEN LET t == ts[i + batchCounter + 1]
             dimSize == t.sizes[dim + 1]
         IN  StackInputsLoop(
                 [stackInputs EXCEPT ![batchCounter + 1] =
                     [input |-> i + batchCounter + 1, offset |-> offset,
                      dimSize |-> dimSize, nElements |-> numel(t.sizes)]],
                 ts, dim, i, batchCounter + 1, offset + dimSize)
    ELSE [stackInputs |-> stackInputs, batchCounter |-> batchCounter,
          offset |-> offset]

\* cat calls parallel_cat: the device metadata buffer is allocated once
parallel_cat_enter ==
    /\ pcat.pc = "idle"
    /\ \E c \in EligibleCalls :
          /\ c.dim < c.nDims
          /\ pcat' = [PcatIdle EXCEPT !.pc = "fill", !.ts = c.ts, !.dim = c.dim,
                                      !.nDims = c.nDims,
                                      !.out = ResizedOutput(c.ts, c.dim),
                                      !.d_inputs = EmptyMetadata]
    /\ UNCHANGED notpcat

\* one batch: a staging buffer is allocated and filled
stack_inputs ==
    /\ pcat.pc = "fill"
    /\ LET buf == FreshStaging(pcat.staging)
           r == StackInputsLoop(EmptyMetadata, pcat.ts, pcat.dim, pcat.i, 0,
                                BatchStartOffset(pcat.offset))
       IN  pcat' = [pcat EXCEPT !.pc = "copy", !.batch = @ + 1,
                                !.stackInputs = buf,
                                !.staging = StoreStaging(@, buf, r.stackInputs),
                                !.batchCounter = r.batchCounter,
                                !.offset = r.offset]
    /\ UNCHANGED notpcat

\* d_inputs_storage.copy_(stackInputs_storage): the transfer goes on the queue
submit_copy ==
    /\ pcat.pc = "copy"
    /\ LET op == [op |-> "copy", batch |-> pcat.batch, src |-> pcat.stackInputs,
                  batchCounter |-> pcat.batchCounter, first |-> pcat.i]
       IN  pcat' = [pcat EXCEPT !.pc = "dispatch", !.queue = Append(@, op),
                                !.submitted = Append(@, op)]
    /\ UNCHANGED notpcat

\* the switch on nDims submits the kernel; then the loop advances
submit_kernel ==
    /\ pcat.pc = "dispatch"
    /\ LET op == [op |-> "kernel", batch |-> pcat.batch, src |-> pcat.stackInputs,
                  batchCounter |-> pcat.batchCounter, first |-> pcat.i]
           ops == IF pcat.nDims \in 1..CAT_ARRAY_MAX_INPUT_DIMS THEN << op >> ELSE <<>>
           next == NextBatchStart(pcat.i)
       IN  pcat' = [pcat EXCEPT !.pc = IF next < Len(pcat.ts) THEN "fill" ELSE "done",
                                !.i = next, !.queue = @ \o ops,
                                !.submitted = @ \o ops]
    /\ UNCHANGED notpcat

\* the device runs the operation at the head of the ordered queue: a transfer
\* reads its staging buffer now; a kernel reads the device metadata now
queue_execute ==
    /\ pcat.queue # <<>>
    /\ LET op == Head(pcat.queue)
           os == OutputParam(pcat.out, pcat.nDims)
           writes == KernelWrites(pcat.d_inputs, os, pcat.dim,
                                  os.outputStride[pcat.dim + 1], op.batchCounter,
                                  pcat.nDims)
       IN  IF op.op = "copy"
           THEN pcat' = [pcat EXCEPT !.queue = Tail(@),
                                     !.d_inputs = pcat.staging[op.src]]
           ELSE \E d \in CellOutcomes(pcat.out.data,
                                      {w \in writes : w[1] \in 0..(Len(pcat.out.data) - 1)},
                                      Len(pcat.out.data)) :
                   pcat' = [pcat EXCEPT
                               !.queue = Tail(@),
                               !.out.data = d,
                               !.kernels = Append(@,
                                   [batch |-> op.batch,
                                    descs |-> SubSeq(pcat.d_inputs, 1, op.batchCounter),
                                    writes |-> writes])]
    /\ UNCHANGED notpcat

InitParallel ==
    /\ linear = LinearIdle
    /\ linalg = LinalgIdle
    /\ pcat = PcatIdle
    /\ grid = GridIdle
    /\ arith = ArithIdle
    /\ CatIdle

NextParallel ==
    \/ parallel_cat_enter
    \/ stack_inputs
    \/ submit_copy
    \/ submit_kernel
    \/ queue_execute

SpecParallel == InitParallel /\ [][NextParallel]_vars

\* ===================================================================
\* CatArrayBatchedCopy, its work items step by step
\* ===================================================================
MaxWorkItems == 3
MaxElements == 4

\* faulty variant: every work item starts at element 0
InitialTidZero(w) == 0

\* tid = wg * wg_size + wi: the global id of the work item along axis 0
InitialTid(w) == w

\* the work items of a dispatch: axis 0 has range of them, axis 1 one row per
\* input of the batch
GridItems(batchCounter, range) == (1..batchCounter) \X (0..(range - 1))

\* the kernel is submitted for a batch whose inputs have nElements[in]
\* elements, on a grid of range > 0 work items per input
kernel_dispatch ==
    /\ grid.pc = "idle"
    /\ \E batchCounter \in 1..MaxInputs, range \in 1..MaxWorkItems :
          \E nElements \in [1..batchCounter -> 0..MaxElements] :
             grid' = [pc |-> "running", nElements |-> nElements, range |-> range,
                      item |-> [wi \in GridItems(batchCounter, range) |->
                                   [pc |-> "start", tid |-> InitialTid(wi[2]), acts |-> 0]],
                      copied |-> [in \in 1..batchCounter |->
                                    [e \in 1..nElements[in] |-> 0]]]
    /\ UNCHANGED notgrid

\* if (tid >= nElements) return;
item_enter ==
    /\ grid.pc = "running"
    /\ \E wi \in DOMAIN grid.item :
          /\ grid.item[wi].pc = "start"
          /\ grid' = [grid EXCEPT !.item[wi].pc =
                         IF grid.item[wi].tid >= grid.nElements[wi[1]]
                         THEN "returned" ELSE "loop"]
    /\ UNCHANGED notgrid

\* one pass of while (tid < nElements): the element is read and written, tid
\* advances by the range of axis 0
item_copy ==
    /\ grid.pc = "running"
    /\ \E wi \in DOMAIN grid.item :
          LET it == grid.item[wi]
              next == it.tid + grid.range
          IN  /\ it.pc = "loop"
              /\ it.tid < grid.nElements[wi[1]]
              /\ grid' = [grid EXCEPT
                             !.copied[wi[1]][it.tid + 1] = @ + 1,
                             !.item[wi] = [pc |-> IF next < grid.nElements[wi[1]]
                                                  THEN "loop" ELSE "returned",
                                           tid |-> next, acts |-> it.acts + 1]]
    /\ UNCHANGED notgrid

InitKernel ==
    /\ linear = LinearIdle
    /\ linalg = LinalgIdle
    /\ pcat = PcatIdle
    /\ grid = GridIdle
    /\ arith = ArithIdle
    /\ CatIdle

NextKernel ==
    \/ kernel_dispatch
    \/ item_enter
    \/ item_copy

\* every work item runs to completion independently of the others
SpecKernel ==
    InitKernel /\ [][NextKernel]_vars /\ WF_vars(item_enter) /\ WF_vars(item_copy)

\* ===================================================================
\* the unsigned index arithmetic of the fast path
\* ===================================================================
\* the width of IndexType (unsigned int), scaled down so that tensors whose
\* element count does not fit are among the calls explored
IndexBits == 3
MaxExtent == 4
MaxOther == 2
MaxWideInputs == 3

IndexModulus == 2 ^ IndexBits

\* a value stored in, or computed as, an IndexType
unsigned(v) == v % IndexModulus

\* faulty variant: every tensor passes the test
canUse32BitIndexMathAny(sizes) == TRUE

\* canUse32BitIndexMath: the element count fits the unsigned index
canUse32BitIndexMath(sizes) == numel(sizes) < IndexModulus

\* calls of cat with defined contiguous inputs of one element type and of one
\* rank, equal outside the concat dimension; sizes may be 0
WideCalls ==
    UNION { { [nDims |-> nDims, dim |-> dim,
               ts |-> [j \in 1..Len(d) |->
                         [defined |-> TRUE,
                          sizes |-> [k \in 1..nDims |->
                                       IF k = dim + 1 THEN d[j] ELSE other]]]]
              : d \in UNION {[1..n -> 0..MaxExtent] : n \in 2..MaxWideInputs} }
            : nDims \in 1..CAT_ARRAY_MAX_INPUT_DIMS,
              dim \in 0..(CAT_ARRAY_MAX_INPUT_DIMS - 1), other \in 0..MaxOther }

\* the descriptors parallel_cat stores: offset and dimSize are int64_t and
\* numel() is int64_t; each is narrowed to IndexType by the assignment
StoredDescs(ts, dim) ==
    [j \in 1..Len(ts) |->
        [offset |-> unsigned(SumDim(ts, dim, 1, j - 1)),
         dimSize |-> unsigned(ts[j].sizes[dim + 1]),
         nElements |-> unsigned(numel(ts[j].sizes))]]

\* the same fields before the narrowing
ExactDescs(ts, dim) ==
    [j \in 1..Len(ts) |->
        [offset |-> SumDim(ts, dim, 1, j - 1),
         dimSize |-> ts[j].sizes[dim + 1],
         nElements |-> numel(ts[j].sizes)]]

\* param.outputSize[i], param.outputStride[i]: narrowed to IndexType
StoredParam(out, nDims) ==
    [outputSize |-> [k \in 1..nDims |-> unsigned(out.sizes[k])],
     outputStride |-> [k \in 1..nDims |-> unsigned(out.strides[k])]]

\* compute divides by curDimSize at dimensions Dims - 1 .. 1
DividesByZero(Dims, outputSize, dimSize, concatDim) ==
    \E i \in 1..(Dims - 1) :
        (IF i = concatDim THEN dimSize ELSE outputSize[i + 1]) = 0

\* CatArrIndexToOffset<unsigned int, Dims>::compute: every product, difference
\* and sum wraps at the width of IndexType
RECURSIVE ComputeLoopUnsigned(_, _, _, _, _, _, _)
ComputeLoopUnsigned(i, outputSize, outputStride, dimSize, concatDim, linearIndex, offset) ==
    IF i < 1 THEN unsigned(offset + unsigned(linearIndex * outputStride[1]))
    ELSE LET curDimSize == IF i = concatDim THEN dimSize ELSE outputSize[i + 1]
             nextDimIndex == linearIndex \div curDimSize
             curDimIndex == unsigned(linearIndex - unsigned(curDimSize * nextDimIndex))
             curDimOffset == unsigned(curDimIndex * outputStride[i + 1])
         IN  ComputeLoopUnsigned(i - 1, outputSize, outputStride, dimSize, concatDim,
                                 nextDimIndex, unsigned(offset + curDimOffset))

CatArrIndexToOffset32(Dims, outputSize, outputStride, dimSize, concatDim, linearIndex) ==
    ComputeLoopUnsigned(Dims - 1, outputSize, outputStride, dimSize, concatDim,
                        linearIndex, 0)

\* cat takes the fast path and parallel_cat stores the descriptors
descriptors_store ==
    /\ arith.pc = "idle"
    /\ \E c \in WideCalls :
          LET out == ResizedOutput(c.ts, c.dim)
          IN  /\ c.dim < c.nDims
              /\ FastPathEligible(Len(c.ts), FALSE, c.nDims,
                                  canUse32BitIndexMath(out.sizes), TRUE,
                                  \A j \in 1..Len(c.ts) : canUse32BitIndexMath(c.ts[j].sizes),
                                  TRUE)
              /\ arith' = [ArithIdle EXCEPT !.pc = "stored", !.ts = c.ts, !.dim = c.dim,
                                            !.nDims = c.nDims,
                                            !.os = StoredParam(out, c.nDims),
                                            !.descs = StoredDescs(c.ts, c.dim)]
    /\ UNCHANGED notarith

\* one pass of the copy loop of the work item of input in at index tid: what
\* it computes as IndexType, next to the unbounded values; a division by zero
\* is undefined
item_arith ==
    /\ arith.pc = "stored"
    /\ \E in \in 1..Len(arith.descs) :
          LET desc == arith.descs[in]
              out == ResizedOutput(arith.ts, arith.dim)
              exact == ExactDescs(arith.ts, arith.dim)[in]
              dimStride == arith.os.outputStride[arith.dim + 1]
              dataOffset == unsigned(desc.offset * dimStride)
          IN  \E tid \in 0..(desc.nElements - 1) :
                 IF DividesByZero(arith.nDims, arith.os.outputSize, desc.dimSize, arith.dim)
                 THEN arith' = [arith EXCEPT !.pc = "copied",
                                   !.item = [in |-> in, tid |-> tid, undefined |-> TRUE]]
                 ELSE LET elementOffset ==
                              CatArrIndexToOffset32(arith.nDims, arith.os.outputSize,
                                                    arith.os.outputStride, desc.dimSize,
                                                    arith.dim, tid)
                          exactElement ==
                              CatArrIndexToOffset(arith.nDims, out.sizes, out.strides,
                                                  exact.dimSize, arith.dim, tid)
                      IN  arith' = [arith EXCEPT !.pc = "copied",
                                       !.item = [in |-> in, tid |-> tid, undefined |-> FALSE,
                                                 dataOffset |-> dataOffset,
                                                 elementOffset |-> elementOffset,
                                                 index |-> unsigned(dataOffset + elementOffset),
                                                 exactDataOffset |-> exact.offset * out.strides[arith.dim + 1],
                                                 exactElementOffset |-> exactElement,
                                                 exactIndex |-> exact.offset * out.strides[arith.dim + 1] + exactElement]]
    /\ UNCHANGED notarith

InitIndex ==
    /\ linear = LinearIdle
    /\ linalg = LinalgIdle
    /\ pcat = PcatIdle
    /\ grid = GridIdle
    /\ arith = ArithIdle
    /\ CatIdle

NextIndex ==
    \/ descriptors_store
    \/ item_arith

SpecIndex == InitIndex /\ [][NextIndex]_vars


\* ======================================================== claims on cat
Kept(ts) == {j \in 1..Len(ts) : ~should_skip(ts[j])}

\* sum of the concat-dimension sizes of the non-skipped inputs before input j
RECURSIVE Before(_, _, _)
Before(ts, dim, j) ==
    IF j <= 1 THEN 0
    ELSE Before(ts, dim, j - 1)
         + (IF should_skip(ts[j - 1]) THEN 0 ELSE ts[j - 1].sizes[dim + 1])

\* the output cell of the multi-index of element lin of input j, its
\* concat-dimension coordinate shifted by the sizes of the inputs before j
TargetCell(out, ts, dim, j, lin) ==
    LET m == Unravel(lin, ts[j].sizes)
    IN  Dot([m EXCEPT ![dim + 1] = @ + Before(ts, dim, j)], out.strides)

\* two non-skipped inputs differ in rank or in a size off the concat dimension
Mismatch(ts, dim) ==
    \E i \in Kept(ts), j \in Kept(ts) :
        \/ Len(ts[i].sizes) # Len(ts[j].sizes)
        \/ \E d \in 0..(Len(ts[i].sizes) - 1) :
              d # dim /\ ts[i].sizes[d + 1] # ts[j].sizes[d + 1]

Copied == pc = "done" /\ path # "none"

\* C1: after cat completes, every element of every non-skipped input is in
\* the output at its own multi-index, shifted along the concat dimension by
\* the sizes of the inputs before it, and in no other output cell.
C1_ElementsPlaced ==
    Copied =>
        /\ ~ub
        /\ \A j \in Kept(inputs) :
              \A lin \in 0..(numel(inputs[j].sizes) - 1) :
                 LET cell == TargetCell(result, inputs, dimension, j, lin)
                 IN  /\ cell + 1 \in 1..Len(result.data)
                     /\ result.data[cell + 1] = Elem(j, lin)
                     /\ \A k \in 1..Len(result.data) :
                           result.data[k] = Elem(j, lin) => k = cell + 1

\* a 2x2 input followed by a 1x2 input along dimension 0, on the fast path:
\* the three rows in input order
C1_Witness ==
    /\ pc = "done"
    /\ path = "fast"
    /\ dimension = 0
    /\ inputs = << [defined |-> TRUE, sizes |-> <<2, 2>>],
                   [defined |-> TRUE, sizes |-> <<1, 2>>] >>
    /\ result.sizes = <<3, 2>>
    /\ result.data = << 100, 101, 102, 103, 200, 201 >>

\* C2: the shape cat gives the output is the first non-skipped input's shape
\* off the concat dimension (so every non-skipped input's size there), and
\* the sum of the non-skipped inputs' sizes on the concat dimension.
C2_OutputShape ==
    (pc = "copy" \/ Copied) =>
        LET first == inputs[CHOOSE j \in Kept(inputs) : \A k \in Kept(inputs) : j <= k]
        IN  /\ Kept(inputs) # {}
            /\ Len(result.sizes) = Len(first.sizes)
            /\ dimension \in 0..(Len(first.sizes) - 1)
            /\ result.sizes[dimension + 1]
                 = Before(inputs \o <<UndefinedTensor>>, dimension, Len(inputs) + 1)
            /\ \A d \in 0..(Len(first.sizes) - 1) :
                  d # dimension =>
                     /\ result.sizes[d + 1] = first.sizes[d + 1]
                     /\ \A j \in Kept(inputs) : inputs[j].sizes[d + 1] = result.sizes[d + 1]
            /\ Len(result.data) = numel(result.sizes)

C2_Witness ==
    /\ pc = "copy"
    /\ dimension = 1
    /\ Len(inputs) = 2
    /\ Kept(inputs) = {1, 2}
    /\ inputs[1].sizes[2] = 1
    /\ inputs[2].sizes[2] = 2
    /\ result.sizes[2] = 3
    /\ result.sizes[1] = inputs[1].sizes[1]

\* C3: for every input set eligible for the fast path, the batched copy gives
\* the output exactly the contents the narrow-and-copy loop would give it.
C3_FastEqualsFallback ==
    (/\ pc = "copy"
     /\ FastPathEligible(Len(inputs), loc.hasSkippedInput, Len(result.sizes),
                         TRUE, TRUE, TRUE, allSameType)) =>
        parallel_cat(result, inputs, dimension, loc.nDims)
            = {FallbackCopy(result, inputs, dimension)}

\* the fast path has run on two rank-3 inputs joined along the middle
\* dimension, and the narrow-and-copy loop would leave its output as it is
C3_Witness ==
    /\ pc = "done"
    /\ path = "fast"
    /\ dimension = 1
    /\ Len(result.sizes) = 3
    /\ result.sizes[1] = 2
    /\ result.sizes[3] = 2
    /\ inputs[1].sizes[2] # inputs[2].sizes[2]
    /\ result.data = FallbackCopy(result, inputs, dimension)

\* C4: for rank 1, 2 and 3 and any concat dimension, compute applied to every
\* linear index of an input whose non-concat sizes equal the output's gives
\* as many pairwise distinct offsets as the input has elements, and each
\* offset plus the input's slice base lies inside the output's extent.
C4_OffsetsDistinctInExtent ==
    pc = "copy" =>
        \A j \in Kept(inputs) :
           LET n == numel(inputs[j].sizes)
               offs == { CatArrIndexToOffset(Len(result.sizes), result.sizes,
                                             result.strides,
                                             inputs[j].sizes[dimension + 1],
                                             dimension, lin) : lin \in 0..(n - 1) }
               base == Before(inputs, dimension, j) * result.strides[dimension + 1]
           IN  /\ Cardinality(offs) = n
               /\ \A o \in offs : base + o \in 0..(numel(result.sizes) - 1)

\* a dispatch on rank-3 inputs joined along the last dimension has written
\* the whole output without a hazard
C4_Witness ==
    /\ pc = "done"
    /\ path = "fast"
    /\ ~ub
    /\ dimension = 2
    /\ Len(result.sizes) = 3
    /\ numel(result.sizes) >= 6
    /\ \A k \in 1..Len(result.data) : result.data[k] >= 100

\* C5: when the alias loop of cat or of _cat_out meets an input whose storage
\* partially or fully overlaps the output's, the call fails with the aliasing
\* error and the output has the size and contents it had before the call: no
\* resize, copy or dispatch has happened.
C5_OverlapRejectedUntouched ==
    overlapping # {} =>
        /\ pc = "failed"
        /\ err = "AliasingError"
        /\ result = PriorResult
        /\ effects = <<>>
        /\ path = "none"

\* the alias loop of _cat_out, before cat is entered, met a second input that
\* overlaps the output
C5_Witness ==
    /\ pc = "failed"
    /\ err = "AliasingError"
    /\ castable = "unqueried"
    /\ overlapping = {2}
    /\ result = PriorResult
    /\ effects = <<>>

ValidationPassed ==
    /\ castable = "yes"
    /\ overlapping = {}
    /\ err = "None"
    /\ Len(inputs) > 0
    /\ dimension >= 0
    /\ ~Mismatch(inputs, dimension)

C7_ValidationBeforeEffects ==
    [][ /\ effects' # <<>> => (ValidationPassed' /\ pc' \in {"copy", "done"})
        /\ (effects = <<>> /\ effects' # <<>>) => (pc = "resize" /\ ValidationPassed)
        /\ err' # "None" => (pc' = "failed" /\ effects' = <<>> /\ result' = result)
        /\ pc # "failed"
      ]_vars

C7_Witness ==
    /\ pc = "done"
    /\ ValidationPassed
    /\ Len(effects) = 3
    /\ effects[1] = "resize"

\* C8: cat fails with the type error, before any dispatch or output mutation,
\* whenever the promoted element type of the inputs cannot be cast to the
\* output's; when it can be cast the type check does not fail.
C8_TypeError ==
    /\ castable = "no" =>
          /\ pc = "failed"
          /\ err = "TypeError"
          /\ result = PriorResult
          /\ effects = <<>>
          /\ path = "none"
    /\ castable = "yes" => err # "TypeError"

C8_Witness ==
    /\ pc = "failed"
    /\ err = "TypeError"
    /\ castable = "no"
    /\ result = PriorResult

\* C9: when every input is a skipped placeholder, cat returns without
\* resizing, copying or dispatching and leaves the output's size and contents
\* unchanged; it returns without error once the type check and the
\* internal-overlap check of the output, which stand before the scan, pass.
AllSkipped(ts) == \A j \in 1..Len(ts) : should_skip(ts[j])

PostOpEntries ==
    {"linear_" \o f : f \in EltwiseFuncs} \cup {"linear_binary_" \o f : f \in BinaryFuncs}
    \cup {"linear_silu", "linear_gelu", "linear_hardsigmoid", "linear_pow",
          "linear_leaky_relu", "linear_hardtanh", "linear_elu",
          "linear_scalar_mul", "linear_scalar_div", "linear_scalar_add",
          "linear_scalar_sub", "linear_sum", "linear_binary_sub"}

\* C10: whenever the fused-matmul service reported isFused = false to a linear
\* entry point that requested a post-op, the tensor the entry point returned
\* has every requested post-op applied; linear_leaky_relu with slope s
\* returned max(x, 0) + s * min(x, 0) of the plain result x.
C10_CallerAppliesPostOps ==
    (/\ linear.entry \in PostOpEntries
     /\ linear.err = "None"
     /\ ~linear.is_fused) =>
        /\ linear.output = [plain |-> linear.plain, applied |-> linear.attr]
        /\ linear.entry = "linear_leaky_relu" =>
              LET x == linear.plain
                  s == linear.attr[1].alpha[1]
              IN  ElementValue(linear.output)
                    = (IF x > 0 THEN x ELSE 0) + s * (IF x < 0 THEN x ELSE 0)

\* C11: linear_binary_sub with operand B and scale s hands the service one
\* binary-add record with operand B and scale -s, exactly what linear_sum
\* hands it for (B, -s); whether the service fuses or the caller falls back,
\* the returned tensor is the plain result minus s * B.
C11_BinarySubIsNegatedAdd ==
    [][ linear'.entry = "linear_binary_sub" =>
           LET B == linear'.args[1]
               s == linear'.args[2]
           IN  /\ linear'.attr = append_scale_binary("add", B, 0 - s)
               /\ linear'.output = [plain |-> linear'.plain, applied |-> linear'.attr]
               /\ AddedValue(linear'.output.plain, linear'.output.applied)
                    = linear'.plain - s * B
               /\ \E r \in LinearConverter_call(linear'.plain,
                                                append_scale_binary("add", B, 0 - s)) :
                     /\ r.is_fused = linear'.is_fused
                     /\ linear'.output
                          = (IF ~r.is_fused THEN at_binary(r.output, "add", B, 0 - s)
                             ELSE r.output)
      ]_vars

\* linear_binary_sub fell back (isFused = false) with B = 2, s = 1 on x = 1
C11_Witness ==
    /\ linear.entry = "linear_binary_sub"
    /\ ~linear.is_fused
    /\ linear.called
    /\ linear.args = <<2, 1>>
    /\ linear.plain = 1
    /\ AddedValue(linear.output.plain, linear.output.applied) = 0 - 1

\* C12 (as amended): linear_scalar_div fails fatally, with no post-op
\* attribute built and the service not called, exactly when the scalar
\* converted to float is 0; otherwise it appends exactly one eltwise "linear"
\* record with alpha = 1 / float(scalar) and beta = 0 and does not fail.
C12_ScalarDivChecksFloatZero ==
    linear.entry = "linear_scalar_div" =>
        LET scalar == linear.args[1]
        IN  IF toFloat(scalar) = 0
            THEN /\ linear.err = "InternalAssert"
                 /\ linear.attr = <<>>
                 /\ ~linear.called
                 /\ linear.output = NoTensor
            ELSE /\ linear.err = "None"
                 /\ linear.called
                 /\ Len(linear.attr) = 1
                 /\ linear.attr[1].kind = "eltwise"
                 /\ linear.attr[1].algorithm = "linear"
                 /\ linear.attr[1].alpha = Rat(1, scalar)
                 /\ linear.attr[1].beta = Rat(0, 1)

\* C12 as stated: every non-zero scalar passes the check.
C12_NonZeroScalarNeverFails ==
    (linear.entry = "linear_scalar_div" /\ linear.args[1] # 0) =>
        /\ linear.err = "None"
        /\ Len(linear.attr) = 1

\* division by 2: one record with alpha = 1/2
C12_Witness ==
    /\ linear.entry = "linear_scalar_div"
    /\ linear.args = <<2>>
    /\ linear.err = "None"
    /\ linear.attr = append_post_eltwise(1, Rat(1, 2), Rat(0, 1), "linear")

\* ========================================= claims on BatchLinearAlgebra.cpp
TriEntries == {"tril_out", "triu_out", "tril_", "triu_"}

\* C13: for every contiguous row-major r x c source with r >= 1 and c >= 1
\* (r x 1 and 1 x c included), every diagonal k and both flags, the result
\* element at (row, col) is the source element when the mask holds there
\* (upper: col - row >= k, lower: col - row <= k) and 0 otherwise. Outputs
\* that were laid out differently from the source are left aside.
C13_TriangleOfRowMajor ==
    (/\ linalg.entry \in TriEntries
     /\ linalg.args.self.sizes[1] >= 1
     /\ linalg.args.self.sizes[2] >= 1
     /\ linalg.args.self.strides = LayoutStrides("row_major", linalg.args.self.sizes[1],
                                                 linalg.args.self.sizes[2])
     /\ linalg.out.strides = linalg.args.self.strides) =>
        \A row \in 0..(linalg.args.self.sizes[1] - 1),
           col \in 0..(linalg.args.self.sizes[2] - 1) :
           At(linalg.out, row, col)
             = (IF Mask(linalg.args.upper, row, col, linalg.args.k)
                THEN At(linalg.args.self, row, col) ELSE 0)

\* C14: for any 2-D layout of the source (row-major, column-major, padded
\* rows or columns), the (row, col) the kernel recovers from each flat index
\* i in [0, N) is the coordinate of the element stored at memory offset i,
\* and every element of the matrix is visited.
C14_RecoveredCoordinates ==
    (/\ linalg.entry \in TriEntries
     /\ linalg.args.self.sizes[1] >= 1
     /\ linalg.args.self.sizes[2] >= 1) =>
        LET self == linalg.args.self
            N == self.sizes[1] * self.sizes[2]
        IN  /\ \A i \in 0..(N - 1) :
                  LET rc == Recover(i, self.strides[1], self.strides[2])
                  IN  /\ rc[1] \in 0..(self.sizes[1] - 1)
                      /\ rc[2] \in 0..(self.sizes[2] - 1)
                      /\ rc[1] * self.strides[1] + rc[2] * self.strides[2] = i
            /\ \A row \in 0..(self.sizes[1] - 1), col \in 0..(self.sizes[2] - 1) :
                  row * self.strides[1] + col * self.strides[2] < N

FactorEntries == {"_lu_with_info", "_svd_helper", "svd", "svd_out"}

\* C15: for LU with check_errors = true and for SVD, whenever the
\* factorization service produced a non-zero status for some batch element
\* the call fails: for batched (rank > 2) input the failure names the first
\* such batch element, for unbatched input it carries the scalar status; the
\* call never returns normally with a non-zero status.
C15_NonZeroStatusSurfaced ==
    (/\ linalg.entry \in FactorEntries
     /\ linalg.entry = "_lu_with_info" => linalg.args.check_errors
     /\ \E b \in 1..Len(linalg.out.status) : linalg.out.status[b] # 0) =>
        /\ ~linalg.out.returned
        /\ linalg.err = "FactorizationFailure"
        /\ linalg.out.failure = CheckErrors(linalg.args.self, linalg.out.status)

\* C20: _lu_with_info with pivot = false fails with the
\* unsupported-configuration error before any allocation, clone or service
\* call, and returns no result.
C20_NoPivotUnsupported ==
    (linalg.entry = "_lu_with_info" /\ ~linalg.args.pivot) =>
        /\ linalg.err = "UnsupportedConfiguration"
        /\ linalg.effects = <<>>
        /\ ~linalg.out.returned
        /\ linalg.out.status = <<>>

\* a call without pivoting on a batch of square matrices that would have
\* factorized
C20_Witness ==
    /\ linalg.entry = "_lu_with_info"
    /\ ~linalg.args.pivot
    /\ linalg.args.self = [rank |-> 3, batch |-> 2, m |-> 2, n |-> 2]
    /\ linalg.err = "UnsupportedConfiguration"

\* ============================================= claims on parallel_cat
\* the descriptors of the count inputs after input first (0-based), by the
\* sizes of the inputs alone
ExpectedDescs(ts, dim, first, count) ==
    [b \in 1..count |->
        [input |-> first + b,
         offset |-> SumDim(ts, dim, 1, first + b - 1),
         dimSize |-> ts[first + b].sizes[dim + 1],
         nElements |-> numel(ts[first + b].sizes)]]

\* the inputs of batch N (1-based): how many, and the input before the first
BatchFirst(N) == (N - 1) * BatchCapacity
BatchCount(n, N) == Min2(BatchCapacity, n - BatchFirst(N))

IsKernel(o) == o.op = "kernel"
KernelsSubmitted == SelectSeq(pcat.submitted, IsKernel)

\* C16: within one dispatch and across all dispatches of one call no two
\* workers write one output location: every write is inside the output, two
\* writes to one location are the same write of the same dispatch, the
\* slices of different inputs along the concat dimension are disjoint, and
\* once the queue has drained the output holds at every location the value
\* of the single write to it, whatever order the workers ran in.
C16_WorkersWriteDisjointLocations ==
    LET ks == pcat.kernels
        extent == Len(pcat.out.data)
        descs == UNION {{ks[k].descs[b] : b \in 1..Len(ks[k].descs)} : k \in 1..Len(ks)}
        all == UNION {ks[k].writes : k \in 1..Len(ks)}
    IN  /\ \A k1 \in 1..Len(ks), k2 \in 1..Len(ks) :
              \A w1 \in ks[k1].writes, w2 \in ks[k2].writes :
                 w1[1] = w2[1] => (k1 = k2 /\ w1 = w2)
        /\ \A w \in all : w[1] \in 0..(extent - 1)
        /\ \A d1 \in descs, d2 \in descs :
              d1.input # d2.input =>
                 \/ d1.offset + d1.dimSize <= d2.offset
                 \/ d2.offset + d2.dimSize <= d1.offset
        /\ (pcat.pc = "done" /\ pcat.queue = <<>>) =>
              \A c \in 1..extent :
                 \E w \in all : w[1] = c - 1 /\ pcat.out.data[c] = w[2]

\* three dispatches of a rank-2 call have run and the queue has drained
C16_Witness ==
    /\ pcat.pc = "done"
    /\ pcat.queue = <<>>
    /\ Len(pcat.kernels) = 3
    /\ pcat.nDims = 2
    /\ Len(pcat.kernels[1].descs) = 2
    /\ \E c \in 1..Len(pcat.out.data) : pcat.out.data[c] = Elem(5, 0)

\* C17: batch N's kernel is submitted after the transfer of batch N's
\* completely filled staging buffer, every batch has a staging buffer of its
\* own, and the descriptors a kernel reads from the shared device metadata
\* are exactly those of its batch, never those of a later one.
C17_KernelReadsOwnBatch ==
    LET sub == pcat.submitted
        n == Len(pcat.ts)
        Filled(N) == [b \in 1..BatchCapacity |->
                         IF b <= BatchCount(n, N)
                         THEN ExpectedDescs(pcat.ts, pcat.dim, BatchFirst(N),
                                            BatchCount(n, N))[b]
                         ELSE Uninit]
    IN  /\ \A p \in 1..Len(sub) :
              sub[p].op = "kernel" =>
                 \E q \in 1..(p - 1) :
                    /\ sub[q].op = "copy"
                    /\ sub[q].batch = sub[p].batch
                    /\ pcat.staging[sub[q].src] = Filled(sub[q].batch)
        /\ \A p \in 1..Len(sub), q \in 1..Len(sub) :
              (p # q /\ sub[p].op = "copy" /\ sub[q].op = "copy") =>
                 sub[p].src # sub[q].src
        /\ \A k \in 1..Len(pcat.kernels) :
              LET N == pcat.kernels[k].batch
              IN  pcat.kernels[k].descs =
                     ExpectedDescs(pcat.ts, pcat.dim, BatchFirst(N), BatchCount(n, N))

\* batch 1's kernel has run while the transfer of batch 2 is still queued
\* and the staging buffer of batch 3 is already filled
C17_Witness ==
    /\ Len(pcat.kernels) = 1
    /\ pcat.kernels[1].batch = 1
    /\ pcat.queue # <<>>
    /\ Head(pcat.queue).op = "copy"
    /\ Head(pcat.queue).batch = 2
    /\ Len(pcat.staging) = 3

\* C19: n inputs get ceil(n / capacity) dispatches in input order, the k-th
\* covering the 1..capacity consecutive inputs after the first (k - 1) *
\* capacity, every input in exactly one dispatch, and the descriptor offset
\* of input j is the sum of the concat-dimension sizes of the inputs before
\* j, carried across the batches.
C19_DispatchesPartitionInputs ==
    LET ks == KernelsSubmitted
        n == Len(pcat.ts)
    IN  /\ pcat.pc = "done" =>
              /\ Len(ks) = (n + BatchCapacity - 1) \div BatchCapacity
              /\ \A j \in 1..n :
                    Cardinality({k \in 1..Len(ks) :
                                    /\ ks[k].first < j
                                    /\ j <= ks[k].first + ks[k].batchCounter}) = 1
        /\ \A k \in 1..Len(ks) :
              /\ ks[k].batch = k
              /\ ks[k].first = BatchFirst(k)
              /\ ks[k].batchCounter \in 1..BatchCapacity
              /\ ks[k].batchCounter = BatchCount(n, k)
              /\ \A b \in 1..ks[k].batchCounter :
                    LET desc == pcat.staging[ks[k].src][b]
                    IN  /\ desc.input = ks[k].first + b
                        /\ desc.offset = SumDim(pcat.ts, pcat.dim, 1, ks[k].first + b - 1)

\* five inputs: two full dispatches and one of a single input, whose
\* descriptor carries the sizes of the four inputs before it
C19_Witness ==
    /\ pcat.pc = "done"
    /\ Len(pcat.ts) = 5
    /\ Len(KernelsSubmitted) = 3
    /\ KernelsSubmitted[3].batchCounter = 1
    /\ pcat.staging[3][1].offset = SumDim(pcat.ts, pcat.dim, 1, 4)
    /\ pcat.staging[3][1].offset > 4

\* C18: a call of cat that reaches the copy takes the batched-copy path if
\* and only if there is more than one input, no input is skipped, the output
\* rank is at most 3, the output and all inputs are 32-bit indexable, all
\* inputs are contiguous and allSameType is true; otherwise, and for every
\* rank above 3, it takes the narrow-and-copy loop and dispatches no kernel.
C18_FastPathIffEligible ==
    (pc = "done" /\ path # "none") =>
        LET kernels == {k \in 1..Len(effects) : effects[k] = "kernel"}
            copies == {k \in 1..Len(effects) : effects[k] = "narrow_copy"}
        IN  /\ path \in {"fast", "fallback"}
            /\ path = "fast" <=>
                  /\ Len(inputs) > 1
                  /\ ~loc.hasSkippedInput
                  /\ Len(result.sizes) <= 3
                  /\ flags.result32
                  /\ flags.all32BitIndexable
                  /\ flags.allContiguous
                  /\ allSameType
            /\ Len(result.sizes) > 3 => path = "fallback"
            /\ path = "fast" => (kernels # {} /\ copies = {})
            /\ path = "fallback" => kernels = {}

\* two rank-4 inputs that meet every other condition go through the
\* narrow-and-copy loop
C18_Witness ==
    /\ pc = "done"
    /\ path = "fallback"
    /\ Len(inputs) = 2
    /\ Len(result.sizes) = 4
    /\ ~loc.hasSkippedInput
    /\ flags.result32 /\ flags.all32BitIndexable /\ flags.allContiguous
    /\ allSameType
    /\ Len(effects) >= 2
    /\ effects[Len(effects)] = "narrow_copy"

\* C21: triu_out / tril_out on an empty source dispatch no kernel and write
\* no element, and a result of other sizes is resized to the source's sizes
\* before the emptiness test, so that after every call the result has the
\* sizes of the source.
C21_EmptySourceNoKernel ==
    (linalg.entry \in {"tril_out", "triu_out"}) =>
        LET self == linalg.args.self
            res == linalg.args.res
            empty == self.sizes[1] * self.sizes[2] = 0
        IN  /\ linalg.out.sizes = self.sizes
            /\ res.sizes # self.sizes =>
                  (Len(linalg.effects) >= 1 /\ linalg.effects[1] = "resize_as_")
            /\ empty =>
                  /\ \A e \in 1..Len(linalg.effects) : linalg.effects[e] # "kernel"
                  /\ linalg.out.data = <<>>
                  /\ res.sizes = self.sizes => linalg.out = res

\* tril_out on an empty 0 x 2 source with a 1 x 2 result: the result is
\* resized to 0 x 2 and nothing else happens
C21_Witness ==
    /\ linalg.entry = "tril_out"
    /\ linalg.args.self.sizes = << 0, 2 >>
    /\ linalg.args.res.sizes = << 1, 2 >>
    /\ linalg.effects = << "resize_as_" >>
    /\ linalg.out.sizes = << 0, 2 >>

\* the reference mixed-radix decomposition: the divisor of dimension k
\* (1-based, k >= 2), the weight of its digit, and the offset
RefDivisor(os, dimSize, concatDim, k) ==
    IF k = concatDim + 1 THEN dimSize ELSE os.outputSize[k]

RECURSIVE RefWeight(_, _, _, _, _)
RefWeight(os, dimSize, concatDim, k, Dims) ==
    IF k >= Dims THEN 1
    ELSE RefDivisor(os, dimSize, concatDim, k + 1)
         * RefWeight(os, dimSize, concatDim, k + 1, Dims)

RECURSIVE RefDigits(_, _, _, _, _, _)
RefDigits(os, dimSize, concatDim, lin, k, Dims) ==
    IF k > Dims THEN 0
    ELSE ((lin \div RefWeight(os, dimSize, concatDim, k, Dims))
             % RefDivisor(os, dimSize, concatDim, k)) * os.outputStride[k]
         + RefDigits(os, dimSize, concatDim, lin, k + 1, Dims)

RefOffset(os, dimSize, concatDim, lin, Dims) ==
    (lin \div RefWeight(os, dimSize, concatDim, 1, Dims)) * os.outputStride[1]
    + RefDigits(os, dimSize, concatDim, lin, 2, Dims)

\* C22: compute equals the reference mixed-radix decomposition (digit =
\* index mod divisor for the dimensions rank-1 down to 1, the divisor being
\* the input's dimSize at the concat dimension and the output's size
\* elsewhere, each digit times the output stride of its dimension, the
\* remaining quotient times outputStride[0]); for rank 1 and for concat
\* dimension 0 the result does not depend on dimSize; and the locations a
\* dispatched kernel wrote are the slice base plus the reference offsets.
C22_ComputeIsMixedRadix ==
    pcat.pc # "idle" =>
        LET os == OutputParam(pcat.out, pcat.nDims)
            Compute(dimSize, lin) ==
                CatArrIndexToOffset(pcat.nDims, os.outputSize, os.outputStride,
                                    dimSize, pcat.dim, lin)
        IN  /\ \A j \in 1..Len(pcat.ts) :
                  \A lin \in 0..(numel(pcat.ts[j].sizes) - 1) :
                     LET dimSize == pcat.ts[j].sizes[pcat.dim + 1]
                     IN  /\ Compute(dimSize, lin)
                              = RefOffset(os, dimSize, pcat.dim, lin, pcat.nDims)
                         /\ (pcat.nDims = 1 \/ pcat.dim = 0) =>
                               \A d \in 1..(MaxSize + 2) :
                                  Compute(d, lin) = Compute(dimSize, lin)
            /\ \A k \in 1..Len(pcat.kernels) :
                  \A b \in 1..Len(pcat.kernels[k].descs) :
                     LET desc == pcat.kernels[k].descs[b]
                     IN  \A tid \in 0..(desc.nElements - 1) :
                            << desc.offset * os.outputStride[pcat.dim + 1]
                                 + RefOffset(os, desc.dimSize, pcat.dim, tid, pcat.nDims),
                               Elem(desc.input, tid) >> \in pcat.kernels[k].writes

\* a kernel has run on rank-3 inputs joined along the middle dimension whose
\* sizes there differ from each other and from the output's
C22_Witness ==
    /\ Len(pcat.kernels) >= 1
    /\ pcat.nDims = 3
    /\ pcat.dim = 1
    /\ pcat.ts[1].sizes = << 2, 1, 2 >>
    /\ pcat.ts[2].sizes = << 2, 2, 2 >>
    /\ Cardinality(pcat.kernels[1].writes) = 12

\* ======================================= claims on the kernel's work items
GridReturned == \A wi \in DOMAIN grid.item : grid.item[wi].pc = "returned"

\* C23: in a dispatch with any positive number of work items per input,
\* every work item's grid-stride loop ends, and then every element index of
\* every input of the batch has been copied exactly once, while a work item
\* whose initial index is not below nElements (every work item of a
\* zero-element input among them) has read and written nothing.
C23_EveryElementOnceAndTermination ==
    (grid.pc = "running") ~>
        /\ GridReturned
        /\ \A in \in DOMAIN grid.copied :
              \A e \in 1..grid.nElements[in] : grid.copied[in][e] = 1
        /\ \A wi \in DOMAIN grid.item :
              wi[2] >= grid.nElements[wi[1]] => grid.item[wi].acts = 0

\* a finished dispatch on a 4-element and a zero-element input with 3 work
\* items each: the first work item of the first input copied twice, all
\* those of the second input did nothing
C23_Witness ==
    /\ grid.pc = "running"
    /\ GridReturned
    /\ grid.nElements = << 4, 0 >>
    /\ grid.range = 3
    /\ grid.item[<< 1, 0 >>].acts = 2
    /\ grid.item[<< 1, 1 >>].acts = 1
    /\ \A w \in 0..2 : grid.item[<< 2, w >>].acts = 0
    /\ grid.copied[1] = << 1, 1, 1, 1 >>

\* C24: on the fallback path the non-skipped inputs are copied in list order
\* into the sub-regions [offset, offset + size_j) along the concat dimension,
\* the offset starting at 0 and advancing by size_j for non-skipped inputs
\* only; the sub-regions are pairwise disjoint, after the last input the
\* offset is the output's concat-dimension size, and every element of input
\* j lies in the sub-region of input j.
C24_FallbackRegionsTile ==
    (pc = "done" /\ path = "fallback") =>
        LET ns == loc.narrows
            size(k) == inputs[ns[k].input].sizes[dimension + 1]
        IN  /\ {ns[k].input : k \in 1..Len(ns)} = Kept(inputs)
            /\ \A k \in 1..(Len(ns) - 1) : ns[k].input < ns[k + 1].input
            /\ \A k \in 1..Len(ns) :
                  /\ ns[k].dimSize = size(k)
                  /\ ns[k].offset = (IF k = 1 THEN 0 ELSE ns[k - 1].offset + size(k - 1))
            /\ \A k \in 1..Len(ns), l \in 1..Len(ns) :
                  k < l => ns[k].offset + ns[k].dimSize <= ns[l].offset
            /\ Len(ns) >= 1
            /\ loc.offset = ns[Len(ns)].offset + size(Len(ns))
            /\ loc.offset = result.sizes[dimension + 1]
            /\ \A k \in 1..Len(ns) :
                  \A lin \in 0..(numel(inputs[ns[k].input].sizes) - 1) :
                     LET mi == Unravel(lin, inputs[ns[k].input].sizes)
                         at == [mi EXCEPT ![dimension + 1] = @ + ns[k].offset]
                     IN  /\ at[dimension + 1] \in ns[k].offset..(ns[k].offset + size(k) - 1)
                         /\ result.data[Dot(at, result.strides) + 1]
                               = Elem(ns[k].input, lin)

\* two rank-2 inputs of 2 and 1 columns joined along dimension 1 by the
\* narrow-and-copy loop
C24_Witness ==
    /\ pc = "done"
    /\ path = "fallback"
    /\ dimension = 1
    /\ Len(inputs) = 2
    /\ inputs[1].sizes = << 2, 2 >>
    /\ inputs[2].sizes = << 2, 1 >>
    /\ loc.narrows = << [input |-> 1, offset |-> 0, dimSize |-> 2],
                        [input |-> 2, offset |-> 2, dimSize |-> 1] >>
    /\ loc.offset = 3

\* a skipped input ahead of a copied one leaves the offset where it was
C24_SkippedWitness ==
    /\ pc = "done"
    /\ path = "fallback"
    /\ Len(inputs) = 2
    /\ should_skip(inputs[1])
    /\ loc.narrows = << [input |-> 2, offset |-> 0, dimSize |-> 2] >>

\* ================================================= claims on Linear.cpp, II
\* the algorithm of the record each entry point outside the two macros names
NamedAlgorithms(entry) ==
    CASE entry = "linear_silu" -> {"swish"}
      [] entry \in {"linear_scalar_mul", "linear_scalar_div", "linear_scalar_add", "linear_scalar_sub"} -> {"linear"}
      [] entry = "linear_gelu" -> {"gelu_erf", "gelu_tanh"}
      [] entry = "linear_hardsigmoid" -> {"hardsigmoid"}
      [] entry = "linear_pow" -> {"pow"}
      [] entry = "linear_leaky_relu" -> {"relu"}
      [] entry = "linear_hardtanh" -> {"clip"}
      [] entry = "linear_elu" -> {"elu"}
      [] entry \in {"linear_sum", "linear_binary_sub"} -> {"add"}
      [] OTHER -> {}

MacroEltwiseEntries == {"linear_" \o func : func \in EltwiseFuncs}
MacroBinaryEntries == {"linear_binary_" \o func : func \in BinaryFuncs}
BinaryEntries == MacroBinaryEntries \cup {"linear_sum", "linear_binary_sub"}

\* the one record the call names: its kind and algorithm
OneNamedRecord ==
    /\ Len(linear.attr) = 1
    /\ linear.attr[1].kind = (IF linear.entry \in BinaryEntries THEN "binary" ELSE "eltwise")
    /\ \/ linear.entry = "linear_" \o linear.attr[1].algorithm
       \/ linear.entry = "linear_binary_" \o linear.attr[1].algorithm
       \/ linear.attr[1].algorithm \in NamedAlgorithms(linear.entry)

C26_BinaryAppliedExactlyOnce ==
    (linear.entry \in BinaryEntries /\ linear.err = "None") =>
        /\ Len(linear.attr) = 1
        /\ linear.output.plain = linear.plain
        /\ linear.output.applied = linear.attr

\* a call after a fused one: the service did not fuse, the entry point
\* applied linear_sum's add by hand, once
C26_Witness ==
    /\ linear.entry = "linear_sum"
    /\ linear.previous
    /\ ~linear.is_fused
    /\ linear.calls = 1
    /\ linear.output.applied = append_scale_binary("add", linear.args[1], linear.args[2])

\* ====================================== claims on BatchLinearAlgebra.cpp, II
\* C27: tril_ and triu_ run the kernel on one storage for result and source;
\* in whatever order the work items run, every index below numel holds what
\* the out-of-place call on a source of the same layout writes there, and
\* every other cell of the storage is untouched.
C27_InPlaceEqualsOutOfPlace ==
    linalg.entry \in {"tril_", "triu_"} =>
        LET self == linalg.args.self
            N == self.sizes[1] * self.sizes[2]
            apart == triu_tril_dpcpp_out(linalg.args.upper,
                                         StaleOutput(self.sizes, "row_major"),
                                         self, linalg.args.k)
        IN  /\ linalg.out.sizes = self.sizes
            /\ linalg.out.strides = self.strides
            /\ \A o \in 1..Len(self.data) :
                  linalg.out.data[o] = IF o - 1 < N THEN apart.data[o]
                                       ELSE self.data[o]

\* triu_ on a 2 x 2 row-major matrix, diagonal 0: three cells kept, one zeroed
C27_Witness ==
    /\ linalg.entry = "triu_"
    /\ linalg.args.k = 0
    /\ linalg.args.self = MatrixView(<< 2, 2 >>, "row_major")
    /\ linalg.out.data = << Tok(0, 0), Tok(0, 1), 0, Tok(1, 1) >>

\* ================================================= claims on Cat.cpp, III
\* what the work item computed as IndexType is what unbounded integers give
ItemExact ==
    /\ ~arith.item.undefined
    /\ arith.item.dataOffset = arith.item.exactDataOffset
    /\ arith.item.elementOffset = arith.item.exactElementOffset
    /\ arith.item.index = arith.item.exactIndex

\* C28 as stated: on the fast path every descriptor field is stored without
\* truncation and every value a work item computes is exact.
C28_NoNarrowingTruncates ==
    arith.pc # "idle" =>
        /\ arith.descs = ExactDescs(arith.ts, arith.dim)
        /\ arith.pc = "copied" => ItemExact

\* C28 (as amended): on the fast path nElements of every input is stored
\* without truncation; offset and dimSize of every input that has an element
\* are stored without truncation; the work items that reach the copy loop
\* belong to such inputs, and their dataOffset, elementOffset and the sum of
\* the two equal the unbounded values. (When a dimension other than the
\* concat dimension is 0, no tensor has an element and the concat sizes are
\* not bounded by an element count: offset and dimSize can then be stored
\* truncated, in descriptors no work item reads.)
C28_NonEmptyInputsExact ==
    arith.pc # "idle" =>
        LET exact == ExactDescs(arith.ts, arith.dim)
        IN  /\ \A j \in 1..Len(arith.descs) :
                  /\ arith.descs[j].nElements = exact[j].nElements
                  /\ exact[j].nElements > 0 => arith.descs[j] = exact[j]
            /\ arith.pc = "copied" =>
                  /\ exact[arith.item.in].nElements > 0
                  /\ ItemExact

\* a work item of a later input wrote into the upper half of the index range
C28_Witness ==
    /\ arith.pc = "copied"
    /\ ItemExact
    /\ arith.item.in > 1
    /\ arith.item.dataOffset > 0
    /\ arith.item.elementOffset > 0
    /\ arith.item.index >= IndexModulus \div 2

====
